---- MODULE Spec2Model ----
(***************************************************************************)
(* Model of the GUS authentication core of the Obsidian plugin:           *)
(* loginViaBrowser (PKCE login over a transient local HTTP listener) and   *)
(* exchangeCodeForToken.  One invocation of loginViaBrowser per element of *)
(* Flows; the Node event loop runs one callback at a time, so every action *)
(* below is one callback (or the synchronous prefix of an async one).      *)
(***************************************************************************)
EXTENDS Integers, Sequences, FiniteSets, TLC

\* ---------------------------------------------------------------- bounds
\* connections accepted by one listener over its life
MaxRequests == 2
\* the same, when two invocations run concurrently
MaxConcurrentRequests == 1

\* ------------------------------------------------------------- constants
Flows == {1, 2}
Ports == {1717, 31717}
Null == "<null>"
\* a property the object does not have, and the value `undefined`
Absence == "<absent>"
Undefined == "<undefined>"
CALLBACK_PATH == "/OauthRedirect"

\* randomBytes(16).toString('base64url'): one nonce per invocation
NonceOf(i) == IF i = 1 THEN "nonceA" ELSE "nonceB"

\* ------------------------------------------------------ callback requests
Paths == {CALLBACK_PATH, "/favicon.ico"}

\* request targets that new URL(target, `http://localhost:${port}`) rejects
\* with a TypeError: "//" starts an authority and leaves the host empty
InvalidTargets == {"//"}
ErrorVals == {Null, "", "access_denied"}
DescVals == {Null, "", "User denied"}
StateVals == {Null, "nonceA", "nonceB"}
CodeVals == {Null, "", "mock_auth_code"}

Requests ==
  [path : Paths, error : ErrorVals, desc : DescVals, state : StateVals, code : CodeVals]

NoReq == [path |-> Null, error |-> Null, desc |-> Null, state |-> Null, code |-> Null]

\* ------------------------------------------------- token endpoint responses
Statuses == {200, 400, 503}

ObjectBodies ==
  [kind : {"object"}, ed : {Null, "Invalid code"}, msg : {Null, "Bad request"},
   at : {Null, "tok"}, iu : {Null, "https://gus.my.salesforce.com"}]

OtherBody(k) == [kind |-> k, ed |-> Null, msg |-> Null, at |-> Null, iu |-> Null]

Bodies == ObjectBodies \cup {OtherBody("null"), OtherBody("malformed"), OtherBody("throws")}

EmptyObject == OtherBody("object")

Responses == [transport : {"ok", "fail"}, status : Statuses, body : Bodies]

\* ------------------------------------------------------- promise outcomes
NoToken == [kind |-> Null, at |-> Null, iu |-> Null]

Pending == [kind |-> "pending", reason |-> "", msg |-> "", token |-> NoToken]

Rejected(reason, msg) ==
  [kind |-> "rejected", reason |-> reason, msg |-> msg, token |-> NoToken]

Resolved(data) ==
  [kind |-> "resolved", reason |-> "", msg |-> "",
   token |-> [kind |-> data.kind, at |-> data.at, iu |-> data.iu]]

\* resolve()/reject() of a Promise: only the first call settles it
SettleOverwrite(p, outcome) == outcome

Settle(p, outcome) == IF p = Pending THEN outcome ELSE p

\* clearTimeout(timeoutId): cancels a pending timer, no effect otherwise
ClearTimeoutNoop(t) == t

ClearTimeout(t) == IF t = "pending" THEN "cancelled" ELSE t

\* server.close(): stops listening; connections already accepted live on
Close(s) == IF s = "listening" THEN "closed" ELSE s

\* JavaScript truthiness of a string | null
Truthy(s) == s # Null /\ s # ""

\* a ?? b
Coalesce(a, b) == IF a # Null THEN a ELSE b

Ok(status) == status >= 200 /\ status < 300

\* res.json().catch(() => ({}))
JsonOrEmpty(body) == IF body.kind = "malformed" THEN EmptyObject ELSE body

\* exchangeCodeForToken: what its promise settles with for a given answer
ExchangeResult(resp) ==
  IF resp.transport = "fail" THEN Rejected("transport-error", "fetch failed")
  ELSE IF resp.body.kind = "throws" THEN Rejected("syntax-error", "Unexpected token")
  ELSE LET data == JsonOrEmpty(resp.body) IN
    IF ~Ok(resp.status)
    THEN IF data.kind = "null"
         THEN Rejected("type-error", "Cannot read properties of null")
         ELSE Rejected("token-exchange-error",
                "Token exchange failed: " \o
                  Coalesce(data.ed, Coalesce(data.msg, "HTTP " \o ToString(resp.status))))
    ELSE Resolved(data)

\* callers and environment of a run.  "single": one invocation and every
\* request and answer; "concurrent": two invocations, a smaller environment
ConcurrentRequests ==
  [path : Paths, error : {Null, "access_denied"}, desc : {Null}, state : {"nonceA", "nonceB"},
   code : {"mock_auth_code"}]

ConcurrentResponses ==
  [transport : {"ok"}, status : {200, 400},
   body : {b \in ObjectBodies : b.ed = Null /\ b.msg = Null /\ b.at # Null /\ b.iu # Null}]

\* "probe": one invocation, every request target, a smaller environment
ProbeRequests ==
  [path : Paths \cup InvalidTargets, error : {Null, "access_denied"}, desc : {Null},
   state : {Null, "nonceA"}, code : {Null, "mock_auth_code"}]

ScenarioFlows(sc) == IF sc \in {"single", "probe"} THEN {1} ELSE Flows

ScenarioRequests(sc) ==
  IF sc = "single" THEN Requests
  ELSE IF sc = "probe" THEN ProbeRequests
  ELSE ConcurrentRequests

ScenarioResponses(sc) == IF sc = "single" THEN Responses ELSE ConcurrentResponses

\* whether another process may hold the port when an invocation binds it
ScenarioPortFree(sc) == IF sc = "single" THEN BOOLEAN ELSE {TRUE}

ScenarioMaxRequests(sc) ==
  IF sc \in {"single", "probe"} THEN MaxRequests ELSE MaxConcurrentRequests

\* ------------------------------------------------------------------ state
VARIABLES
  scenario,       \* the invocations and the environment of this run (fixed)
  started,        \* loginViaBrowser(i) has been called
  port,           \* options.port ?? 1717
  server,         \* "none" | "listening" | "closed" | "failed"
  timer,          \* watchdog: "none" | "pending" | "cancelled" | "fired"
  srvErr,         \* queued 'error' event of the server: Null or its code
  listenCb,       \* queued 'listening' callback
  opener,         \* "notcalled" | "ok" | "rejecting" | "rejected" | "threw"
  conns,          \* accepted connections whose request is not yet dispatched
  accepted,       \* connections accepted so far
  inflight,       \* token requests awaiting their answer
  promise,        \* the Promise returned to the caller
  delivered,      \* history: every outcome the caller has observed
  lateCall,       \* history: resolve/reject was called on a settled promise
  processed,      \* history: redirect-path requests handled
  tokenRequests,  \* history: requests sent to the token endpoint
  lastReq,        \* history: the request handled last
  lastFlow,       \* history: the flow that handled it
  lastAnswer      \* history: the status it was answered with, 0 for no answer

loginVars == <<scenario, started, port, server, timer, srvErr, listenCb, opener, conns,
               accepted, inflight, promise, delivered, lateCall, processed, tokenRequests,
               lastReq, lastFlow, lastAnswer>>

\* ------------------------------------------- getAuthenticatedClient: state
\* the clock runs up to
MaxClock == 3

Calls == {1, 2}
MaxAges == {0, 1, 2}
INSTANCE_URL == "https://gus.my.salesforce.com"

VARIABLES
  clock,          \* Date.now()
  stored,         \* contents of the TokenStorage
  gpc,            \* position of each getAuthenticatedClient call
  opts,           \* its options: tokenStorage configured, maxAgeHours
  loginCalled,    \* it has called loginViaBrowser
  token,          \* what loginViaBrowser settled with
  cachedRec,      \* the CachedToken built after the login
  returned,       \* what the call returned or threw
  setCalls        \* history: storage.set calls of each call

clientVars == <<clock, stored, gpc, opts, loginCalled, token, cachedRec, returned, setCalls>>

\* CachedToken | null; obtained is the time the token was issued (history)
NoCred == [present |-> FALSE, at |-> Null, iu |-> Null, collected |-> 0, obtained |-> 0]

StaleCred ==
  [present |-> TRUE, at |-> "stale-tok", iu |-> INSTANCE_URL, collected |-> 0, obtained |-> 0]

NoReturn == [kind |-> "none", at |-> Null, iu |-> Null]

NoOpts == [useStorage |-> FALSE, maxAge |-> 0]

IdleClient ==
  /\ clock = 0
  /\ stored = NoCred
  /\ gpc = [c \in Calls |-> "idle"]
  /\ opts = [c \in Calls |-> NoOpts]
  /\ loginCalled = [c \in Calls |-> FALSE]
  /\ token = [c \in Calls |-> Pending]
  /\ cachedRec = [c \in Calls |-> NoCred]
  /\ returned = [c \in Calls |-> NoReturn]
  /\ setCalls = [c \in Calls |-> 0]

\* ---------------------------------------------------- queryWorkItems: state
\* the server answers at most
MaxPages == 3

QUERY_PATH == "/services/data/v51.0/query"

\* URLs are sequences of segments; "/" is a segment of its own where the
\* code looks at it
InstanceUrls == {<<INSTANCE_URL>>, <<INSTANCE_URL, "/">>}
AccessTokens == {"tokA", "tokB"}
RelativeNext == <<QUERY_PATH, "/01gxxx-2000">>
AbsoluteNext == <<INSTANCE_URL, QUERY_PATH, "/01gxxx-2000">>

\* SoqlRecord: a raw record; a related object is absent, null or an object
NoRecordType == [kind |-> "absent", DeveloperName |-> Absence]
NoRelated == [kind |-> "absent", Name |-> Absence]

SoqlRecord(id, name) ==
  [Id |-> id, Name |-> name, Subject__c |-> Absence, Status__c |-> Absence,
   RecordType |-> NoRecordType, Details__c |-> Absence, CurrencyIsoCode |-> Absence,
   Severity__c |-> Absence, Assignee__c |-> Absence, CreatedDate |-> Absence,
   LastModifiedDate |-> Absence, Product_Tag__r |-> NoRelated, Epic__r |-> NoRelated]

RecordLists ==
  {<<>>, <<SoqlRecord("a1", "W-1")>>, <<SoqlRecord("a2", Null), SoqlRecord("a1", "W-1")>>}

\* bodies of a query answer: a SoqlResponse with any of its fields missing,
\* an error array, `null`, or text that is not JSON
PageBodies ==
  [kind : {"object"}, done : {"true", "false", "absent"}, hasRecs : {TRUE}, recs : RecordLists,
   hasNext : {TRUE}, next : {<<>>, RelativeNext, AbsoluteNext}, msg : {Null}]
  \cup
  [kind : {"object"}, done : {"true", "false", "absent"}, hasRecs : {TRUE}, recs : RecordLists,
   hasNext : {FALSE}, next : {<<>>}, msg : {Null}]
  \cup
  [kind : {"object"}, done : {"true", "false"}, hasRecs : {FALSE}, recs : {<<>>},
   hasNext : BOOLEAN, next : {<<>>}, msg : {Null, "No such column"}]

OtherPageBody(k, msg) ==
  [kind |-> k, done |-> "absent", hasRecs |-> FALSE, recs |-> <<>>, hasNext |-> FALSE,
   next |-> <<>>, msg |-> msg]

EmptyPage == OtherPageBody("object", Null)

PageResponses ==
  [transport : {"ok"}, status : {200, 400},
   body : PageBodies \cup {OtherPageBody("array", "No such column"), OtherPageBody("null", Null),
                           OtherPageBody("malformed", Null), OtherPageBody("throws", Null)}]
  \cup {[transport |-> "fail", status |-> 0, body |-> EmptyPage]}

VARIABLES
  qpc,            \* position of the queryWorkItems call
  qArgs,          \* its arguments: instanceUrl, accessToken
  url,            \* the loop variable `url`
  allRecords,     \* the accumulator
  qRequests,      \* history: requests sent, in order
  qPages,         \* history: responses received, in order
  qResult         \* what the call returned or threw

queryVars == <<qpc, qArgs, url, allRecords, qRequests, qPages, qResult>>

NoResult == [kind |-> "none", records |-> <<>>, msg |-> ""]

IdleQuery ==
  /\ qpc = "idle"
  /\ qArgs = [instanceUrl |-> <<>>, accessToken |-> ""]
  /\ url = <<>>
  /\ allRecords = <<>>
  /\ qRequests = <<>>
  /\ qPages = <<>>
  /\ qResult = NoResult

\* ------------------------------------------------------ string functions
\* templates have at most
MaxTemplateLen == 3
\* strings to escape have at most
MaxStringLen == 4

\* strings are sequences of atoms: a character, or the rest of a placeholder
\* after its "$" ("{me}" stands for the four characters { m e })
Keys == {"me", "team", "product_tag"}
Brace(key) == "{" \o key \o "}"
TemplateAtoms == {"$", "a", Brace("me"), Brace("team"), Brace("product_tag"), Brace("sprint")}

RECURSIVE StringsUpTo(_, _)
StringsUpTo(atoms, n) ==
  IF n = 0 THEN {<<>>}
  ELSE LET shorter == StringsUpTo(atoms, n - 1) IN
    shorter \cup {Append(s, a) : s \in shorter, a \in atoms}

Templates == StringsUpTo(TemplateAtoms, MaxTemplateLen)

\* an optional string of QueryTemplateValues
Absent == [given |-> FALSE, v |-> <<>>]
Given(v) == [given |-> TRUE, v |-> v]

MeValues ==
  {Absent, Given(<<>>), Given(<<"a">>), Given(<<"$", Brace("team")>>), Given(<<"$", "&">>),
   Given(<<"$", "$">>)}
TeamValues == {Absent, Given(<<"b">>), Given(<<"$", Brace("me")>>)}
ProductTagValues == {Absent, Given(<<"c", "'">>)}

TemplateValues == [me : MeValues, team : TeamValues, product_tag : ProductTagValues]

EscapeAtoms == {"'", "a", "$"}

VARIABLES
  template,       \* substituteQueryTemplate: the template passed first
  values,         \* the values the caller holds
  current,        \* the string returned by the last call
  applied,        \* the keys passed so far
  substCalls,     \* history: number of calls made
  escIn,          \* escapeSoqlString: its argument
  escOut,         \* its result
  escDone         \* it has returned

templateVars == <<template, values, current, applied, substCalls>>

escapeVars == <<escIn, escOut, escDone>>

IdleTemplate ==
  /\ template = <<>>
  /\ values = [me |-> Absent, team |-> Absent, product_tag |-> Absent]
  /\ current = <<>>
  /\ applied = {}
  /\ substCalls = 0

IdleEscape ==
  /\ escIn = <<>>
  /\ escOut = <<>>
  /\ escDone = FALSE

\* ------------------------------------------------------- resolveProject
\* the project list has at most
MaxProjects == 3

\* names are sequences of characters; "A" and "a" differ by case only
NameAtoms == {"A", "a", "b"}
Names == StringsUpTo(NameAtoms, 2)

VARIABLES
  rQuery,         \* resolveProject: query
  rProjects,      \* projects
  rResult         \* what it returned or threw

resolveVars == <<rQuery, rProjects, rResult>>

NoResolution == [kind |-> "none", name |-> <<>>, lines |-> <<>>]

IdleResolve ==
  /\ rQuery = <<>>
  /\ rProjects = <<>>
  /\ rResult = NoResolution

\* ------------------------------------------------- core operations: state
\* a JSON body as the operations look at it: create answers (success, id,
\* errors), error answers (message), query and search answers (records,
\* given by the one field read from each record), userinfo (user_id)
CoreBody(kind, success, id, hasErrors, errors, msg, hasRecs, recs, userId) ==
  [kind |-> kind, success |-> success, id |-> id, hasErrors |-> hasErrors, errors |-> errors,
   msg |-> msg, hasRecs |-> hasRecs, recs |-> recs, userId |-> userId]

EmptyBody == CoreBody("object", Absence, Null, FALSE, <<>>, Null, FALSE, <<>>, Null)

OtherCoreBody(kind, msg) == [EmptyBody EXCEPT !.kind = kind, !.msg = msg]

\* errors?: unknown[]; an entry is given by its message, Null when it has none
ErrorLists ==
  {<<>>, <<Null>>, <<"Required fields are missing">>, <<Null, "Duplicate value">>}

CreateBodies ==
  {[EmptyBody EXCEPT !.success = s, !.id = i] : s \in {"true", "false", Absence},
                                               i \in {Null, "", "a07B0001"}}
  \cup {[EmptyBody EXCEPT !.success = s, !.id = i, !.hasErrors = TRUE, !.errors = e] :
          s \in {"true", "false"}, i \in {Null, "a07B0001"}, e \in ErrorLists}

RecordBodies(lists) ==
  {EmptyBody} \cup {[EmptyBody EXCEPT !.hasRecs = TRUE, !.recs = l] : l \in lists}

UserInfoBodies ==
  {EmptyBody, [EmptyBody EXCEPT !.userId = "005B0001"], OtherCoreBody("object", "Bad token")}

\* answers that are not the expected object: an error array, `null`, text
\* that is not JSON
OddBodies ==
  {OtherCoreBody("array", "Session expired or invalid"), OtherCoreBody("null", Null),
   OtherCoreBody("malformed", Null)}

TransportFailure == [transport |-> "fail", status |-> 0, body |-> EmptyBody]

Answers(statuses, bodies) ==
  [transport : {"ok"}, status : statuses, body : bodies \cup OddBodies] \cup {TransportFailure}

\* what each kind of request can be answered with
AnswersTo(kind) ==
  CASE kind = "create" -> Answers({201, 400}, CreateBodies)
    [] kind = "name-lookup" ->
         Answers({200, 400}, RecordBodies({<<>>, <<Absence>>, <<Null>>, <<"W-12345", "W-2">>}))
    [] kind = "userinfo" -> Answers({200, 401}, UserInfoBodies)
    [] kind = "team-lookup" ->
         Answers({200, 400}, RecordBodies({<<>>, <<"a0T1">>, <<"a0T1", Absence, "a0T2">>}))
    [] kind = "search" -> Answers({200, 400}, RecordBodies({<<>>, <<"a3Q1", "a3Q2">>}))
    [] kind = "record-types" ->
         Answers({200, 400}, RecordBodies({<<"Bug", Absence, "User_Story">>}))

VARIABLES
  op,             \* the operation called and its arguments
  opPc,           \* the request it awaits; "idle", "done" or "failed" otherwise
  opSent,         \* history: the requests sent, in order
  opGot,          \* history: the answers received, in order
  opTeams,        \* searchEpics: teamIds
  opResult        \* what the operation returned or threw

coreVars == <<op, opPc, opSent, opGot, opTeams, opResult>>

NoOp == [name |-> "none", instanceUrl |-> <<>>, searchTerm |-> <<>>, restrictToMyTeams |-> FALSE]

NoOpResult == [kind |-> "none", msg |-> "", id |-> Null, name |-> Null, url |-> <<>>,
               items |-> <<>>]

IdleCore ==
  /\ op = NoOp
  /\ opPc = "idle"
  /\ opSent = <<>>
  /\ opGot = <<>>
  /\ opTeams = <<>>
  /\ opResult = NoOpResult

\* ------------------------------------------------------ configuration: state
DEFAULT_INSTANCE == "gus.my.salesforce.com"
DEFAULT_REDIRECT_URI == "http://localhost:1717/OauthRedirect"
DEFAULT_SCOPES == "refresh_token api web"
DEFAULT_CLIENT_ID == "PlatformCLI"

DEFAULT_GUS_CONFIG ==
  [instance |-> DEFAULT_INSTANCE, clientId |-> DEFAULT_CLIENT_ID,
   redirectUri |-> DEFAULT_REDIRECT_URI, scopes |-> DEFAULT_SCOPES]

\* interface GusConfig; defaultTeam and defaultProductTag are optional and
\* have no default
ConfigFields ==
  {"instance", "clientId", "redirectUri", "scopes", "defaultTeam", "defaultProductTag"}

FieldValues(f) ==
  CASE f = "instance" -> {Undefined, "custom.my.salesforce.com", "https://test.salesforce.com/"}
    [] f = "clientId" -> {Undefined, "CustomClient"}
    [] f = "redirectUri" -> {"http://localhost:1718/OauthRedirect"}
    [] f = "scopes" -> {"api"}
    [] f = "defaultTeam" -> {Undefined, "a00B0000001"}
    [] f = "defaultProductTag" -> {"GUS"}

\* Partial<GusConfig>: any subset of the fields; `config` itself may be missing
PartialConfigs ==
  UNION {{p \in [K -> UNION {FieldValues(f) : f \in K}] : \A f \in K : p[f] \in FieldValues(f)} :
           K \in SUBSET ConfigFields}

NoPartial == [given |-> FALSE, fields |-> <<>>]

ConfigArguments == {NoPartial} \cup [given : {TRUE}, fields : PartialConfigs]

ConfigCallers == {"buildAuthUrl", "exchangeCodeForToken", "loginViaBrowser"}

VARIABLES
  defaultConfig,  \* the exported DEFAULT_GUS_CONFIG object
  cfgCaller,      \* the operation that resolved its configuration last
  cfgPartial,     \* the partial configuration it was given
  cfgEffective    \* the configuration it works with

configVars == <<defaultConfig, cfgCaller, cfgPartial, cfgEffective>>

IdleConfig ==
  /\ defaultConfig = DEFAULT_GUS_CONFIG
  /\ cfgCaller = "none"
  /\ cfgPartial = NoPartial
  /\ cfgEffective = <<>>

\* ------------------------------------------------------------- PKCE: state
VERIFIER_BYTES == 32

\* byte values the random source is sampled at: both ends, and values whose
\* sextets fall on 62 and 63, the two characters that differ from base64
ByteValues == {0, 1, 62, 63, 251, 255}

VARIABLES
  entropy,        \* what randomBytes(32) returned
  verifier        \* what generateCodeVerifier returned; <<>> before the call

pkceVars == <<entropy, verifier>>

IdlePkce == entropy = <<>> /\ verifier = <<>>

\* ------------------------------------------------ parseWorkItem: state
\* what a field of a raw record can hold: nothing, null, '' or a text
FieldStates == {Absence, Null, "", "In Progress"}

RecordTypeStates ==
  {NoRecordType, [kind |-> "null", DeveloperName |-> Absence]} \cup
  [kind : {"object"}, DeveloperName : {Absence, Null, "Bug"}]

RelatedStates ==
  {NoRelated, [kind |-> "null", Name |-> Absence]} \cup
  [kind : {"object"}, Name : {Absence, Null, "GUS"}]

\* the raw records: the always-filled fields, the plain optional fields and
\* the related objects are varied in turn
RawRecords ==
  [Id : {"a06xxx", Absence}, Name : FieldStates, Subject__c : FieldStates,
   Status__c : FieldStates, RecordType : {NoRecordType}, Details__c : {Absence},
   CurrencyIsoCode : {Absence}, Severity__c : {Absence}, Assignee__c : {Absence},
   CreatedDate : {Absence}, LastModifiedDate : {Absence}, Product_Tag__r : {NoRelated},
   Epic__r : {NoRelated}]
  \cup
  [Id : {"a06xxx"}, Name : {"W-12345"}, Subject__c : {Absence}, Status__c : {""},
   RecordType : {NoRecordType}, Details__c : FieldStates, CurrencyIsoCode : FieldStates,
   Severity__c : FieldStates, Assignee__c : FieldStates, CreatedDate : FieldStates,
   LastModifiedDate : FieldStates, Product_Tag__r : {NoRelated}, Epic__r : {NoRelated}]
  \cup
  [Id : {"a06xxx"}, Name : {"W-12345"}, Subject__c : {Absence}, Status__c : {""},
   RecordType : RecordTypeStates, Details__c : {Absence}, CurrencyIsoCode : {"USD"},
   Severity__c : {Absence}, Assignee__c : {Absence}, CreatedDate : {Absence},
   LastModifiedDate : {Absence}, Product_Tag__r : RelatedStates, Epic__r : RelatedStates]

VARIABLES
  rawRecord,      \* the record handed to parseWorkItem
  workItem,       \* the work item it returned
  parsed          \* whether parseWorkItem has run

parseVars == <<rawRecord, workItem, parsed>>

NoWorkItem ==
  [id |-> Undefined, name |-> Undefined, subject |-> Undefined, status |-> Undefined,
   recordTypeDeveloperName |-> Undefined, description |-> Undefined,
   currencyIsoCode |-> Undefined, severity |-> Undefined, assigneeId |-> Undefined,
   createdDate |-> Undefined, lastModifiedDate |-> Undefined, productTagName |-> Undefined,
   epicName |-> Undefined]

IdleParse == rawRecord = SoqlRecord(Absence, Absence) /\ workItem = NoWorkItem /\ parsed = FALSE

\* ------------------------------------- loginViaBrowser: port and redirect
DEFAULT_PORT == 1717

\* options.port: not given, or a port number
NoPort == [given |-> FALSE, value |-> 0]

PortOptions == {NoPort} \cup [given : {TRUE}, value : {1717, 1718, 31717}]

VARIABLES
  loginOptions,     \* the port and config options of the invocation
  listenPort,       \* the port handed to server.listen
  authRedirectUri,  \* redirect_uri of the authorization URL
  tokenRedirectUri, \* redirect_uri of the token request
  setupPc           \* "idle", "listening" or "exchanged"

listenVars == <<loginOptions, listenPort, authRedirectUri, tokenRedirectUri, setupPc>>

IdleListen ==
  /\ loginOptions = [port |-> NoPort, config |-> NoPartial]
  /\ listenPort = 0
  /\ authRedirectUri = Null
  /\ tokenRedirectUri = Null
  /\ setupPc = "idle"

\* ------------------------------------------------- plugin data: state
\* data.json as loadData() returns it: null when there is no file, else an
\* object with the settings and, after a login, the cached credential
NoData == [exists |-> FALSE, textValue |-> Absence, gusToken |-> Absence]

TextValues == {"", "notes", "todo"}

CachedTokens == {"tok1", "tok2"}

DataFiles ==
  {NoData} \cup [exists : {TRUE}, textValue : TextValues, gusToken : {Absence, "tok0"}]

\* the settings are followed through one of their fields, textValue
DEFAULT_SETTINGS == [textValue |-> ""]

NoSet == [active |-> FALSE, d |-> NoData, data |-> Absence]

VARIABLES
  dataJson,       \* the plugin's stored data
  settings,       \* this.settings, the object saveSettings writes
  loaded,         \* whether loadSettings has run
  pendingSet,     \* a storage.set between its loadData and its saveData
  credential      \* history: the credential the token storage wrote last

dataVars == <<dataJson, settings, loaded, pendingSet, credential>>

IdleData ==
  /\ dataJson = NoData
  /\ settings = NoData
  /\ loaded = FALSE
  /\ pendingSet = NoSet
  /\ credential = Absence

\* ------------------------------------------------------- all the variables
nonLoginVars == <<clientVars, queryVars, templateVars, escapeVars, resolveVars, coreVars,
   configVars, pkceVars, parseVars, listenVars, dataVars>>

nonClientVars == <<loginVars, queryVars, templateVars, escapeVars, resolveVars, coreVars,
   configVars, pkceVars, parseVars, listenVars, dataVars>>

nonQueryVars == <<loginVars, clientVars, templateVars, escapeVars, resolveVars, coreVars,
   configVars, pkceVars, parseVars, listenVars, dataVars>>

nonTemplateVars == <<loginVars, clientVars, queryVars, escapeVars, resolveVars, coreVars,
   configVars, pkceVars, parseVars, listenVars, dataVars>>

nonEscapeVars == <<loginVars, clientVars, queryVars, templateVars, resolveVars, coreVars,
   configVars, pkceVars, parseVars, listenVars, dataVars>>

nonResolveVars == <<loginVars, clientVars, queryVars, templateVars, escapeVars, coreVars,
   configVars, pkceVars, parseVars, listenVars, dataVars>>

nonCoreVars == <<loginVars, clientVars, queryVars, templateVars, escapeVars, resolveVars,
   configVars, pkceVars, parseVars, listenVars, dataVars>>

nonConfigVars == <<loginVars, clientVars, queryVars, templateVars, escapeVars, resolveVars,
   coreVars, pkceVars, parseVars, listenVars, dataVars>>

nonPkceVars == <<loginVars, clientVars, queryVars, templateVars, escapeVars, resolveVars,
   coreVars, configVars, parseVars, listenVars, dataVars>>

nonParseVars == <<loginVars, clientVars, queryVars, templateVars, escapeVars, resolveVars,
   coreVars, configVars, pkceVars, listenVars, dataVars>>

nonListenVars == <<loginVars, clientVars, queryVars, templateVars, escapeVars, resolveVars,
   coreVars, configVars, pkceVars, parseVars, dataVars>>

nonDataVars == <<loginVars, clientVars, queryVars, templateVars, escapeVars, resolveVars,
   coreVars, configVars, pkceVars, parseVars, listenVars>>

vars == <<loginVars, nonLoginVars>>

InitFlows ==
  /\ started = [i \in Flows |-> FALSE]
  /\ port = [i \in Flows |-> 1717]
  /\ server = [i \in Flows |-> "none"]
  /\ timer = [i \in Flows |-> "none"]
  /\ srvErr = [i \in Flows |-> Null]
  /\ listenCb = [i \in Flows |-> FALSE]
  /\ opener = [i \in Flows |-> "notcalled"]
  /\ conns = [i \in Flows |-> 0]
  /\ accepted = [i \in Flows |-> 0]
  /\ inflight = [i \in Flows |-> 0]
  /\ promise = [i \in Flows |-> Pending]
  /\ delivered = [i \in Flows |-> {}]
  /\ lateCall = [i \in Flows |-> FALSE]
  /\ processed = [i \in Flows |-> 0]
  /\ tokenRequests = [i \in Flows |-> 0]
  /\ lastReq = NoReq
  /\ lastFlow = 0
  /\ lastAnswer = 0

\* no login flow is running
IdleLogin == scenario = "idle" /\ InitFlows

IdleNonLogin == IdleClient /\ IdleQuery /\ IdleTemplate /\ IdleEscape /\ IdleResolve /\
  IdleCore /\ IdleConfig /\ IdlePkce /\ IdleParse /\ IdleListen /\ IdleData

IdleNonClient == IdleLogin /\ IdleQuery /\ IdleTemplate /\ IdleEscape /\ IdleResolve /\
  IdleCore /\ IdleConfig /\ IdlePkce /\ IdleParse /\ IdleListen /\ IdleData

IdleNonQuery == IdleLogin /\ IdleClient /\ IdleTemplate /\ IdleEscape /\ IdleResolve /\
  IdleCore /\ IdleConfig /\ IdlePkce /\ IdleParse /\ IdleListen /\ IdleData

IdleNonTemplate == IdleLogin /\ IdleClient /\ IdleQuery /\ IdleEscape /\ IdleResolve /\
  IdleCore /\ IdleConfig /\ IdlePkce /\ IdleParse /\ IdleListen /\ IdleData

IdleNonEscape == IdleLogin /\ IdleClient /\ IdleQuery /\ IdleTemplate /\ IdleResolve /\
  IdleCore /\ IdleConfig /\ IdlePkce /\ IdleParse /\ IdleListen /\ IdleData

IdleNonResolve == IdleLogin /\ IdleClient /\ IdleQuery /\ IdleTemplate /\ IdleEscape /\
  IdleCore /\ IdleConfig /\ IdlePkce /\ IdleParse /\ IdleListen /\ IdleData

IdleNonCore == IdleLogin /\ IdleClient /\ IdleQuery /\ IdleTemplate /\ IdleEscape /\
  IdleResolve /\ IdleConfig /\ IdlePkce /\ IdleParse /\ IdleListen /\ IdleData

IdleNonConfig == IdleLogin /\ IdleClient /\ IdleQuery /\ IdleTemplate /\ IdleEscape /\
  IdleResolve /\ IdleCore /\ IdlePkce /\ IdleParse /\ IdleListen /\ IdleData

IdleNonPkce == IdleLogin /\ IdleClient /\ IdleQuery /\ IdleTemplate /\ IdleEscape /\
  IdleResolve /\ IdleCore /\ IdleConfig /\ IdleParse /\ IdleListen /\ IdleData

IdleNonParse == IdleLogin /\ IdleClient /\ IdleQuery /\ IdleTemplate /\ IdleEscape /\
  IdleResolve /\ IdleCore /\ IdleConfig /\ IdlePkce /\ IdleListen /\ IdleData

IdleNonListen == IdleLogin /\ IdleClient /\ IdleQuery /\ IdleTemplate /\ IdleEscape /\
  IdleResolve /\ IdleCore /\ IdleConfig /\ IdlePkce /\ IdleParse /\ IdleData

IdleNonData == IdleLogin /\ IdleClient /\ IdleQuery /\ IdleTemplate /\ IdleEscape /\
  IdleResolve /\ IdleCore /\ IdleConfig /\ IdlePkce /\ IdleParse /\ IdleListen

Init == scenario = "single" /\ InitFlows /\ IdleNonLogin

InitConcurrent == scenario = "concurrent" /\ InitFlows /\ IdleNonLogin

\* resolve(o) / reject(o) called by flow i
CallSettle(i, outcome) ==
  LET p == Settle(promise[i], outcome) IN
  /\ promise' = [promise EXCEPT ![i] = p]
  /\ delivered' = [delivered EXCEPT ![i] = IF p # promise[i] THEN @ \cup {p} ELSE @]
  /\ lateCall' = [lateCall EXCEPT ![i] = @ \/ promise[i] # Pending]

PortInUse(p) == \E j \in Flows : server[j] = "listening" /\ port[j] = p

\* loginViaBrowser up to the end of the Promise executor: createServer,
\* setTimeout, server.listen (the bind happens inside listen; its result is
\* reported by a queued 'listening' or 'error' event), server.on('error')
Start(i, p, free) ==
  /\ i \in ScenarioFlows(scenario)
  /\ ~started[i]
  /\ started' = [started EXCEPT ![i] = TRUE]
  /\ port' = [port EXCEPT ![i] = p]
  /\ timer' = [timer EXCEPT ![i] = "pending"]
  /\ IF free /\ ~PortInUse(p)
     THEN /\ server' = [server EXCEPT ![i] = "listening"]
          /\ listenCb' = [listenCb EXCEPT ![i] = TRUE]
          /\ UNCHANGED srvErr
     ELSE /\ server' = [server EXCEPT ![i] = "failed"]
          /\ srvErr' = [srvErr EXCEPT ![i] = "EADDRINUSE"]
          /\ UNCHANGED listenCb
  /\ UNCHANGED <<nonLoginVars, scenario, opener, conns, accepted, inflight, promise, delivered,
                 lateCall, processed, tokenRequests, lastReq, lastFlow, lastAnswer>>

\* server.listen callback: Promise.resolve(options.openBrowser(authUrl)).catch(reject)
ListenCallback(i, result) ==
  /\ listenCb[i]
  /\ listenCb' = [listenCb EXCEPT ![i] = FALSE]
  /\ opener' = [opener EXCEPT ![i] = result]
  /\ UNCHANGED <<nonLoginVars, scenario, started, port, server, timer, srvErr, conns, accepted, inflight,
                 promise, delivered, lateCall, processed, tokenRequests,
                 lastReq, lastFlow, lastAnswer>>

\* the promise returned by openBrowser rejects: .catch(reject)
OpenerFail(i) ==
  /\ opener[i] = "rejecting"
  /\ opener' = [opener EXCEPT ![i] = "rejected"]
  /\ CallSettle(i, Rejected("opener-error", "openBrowser failed"))
  /\ UNCHANGED <<nonLoginVars, scenario, started, port, server, timer, srvErr, listenCb, conns, accepted,
                 inflight, processed, tokenRequests, lastReq, lastFlow, lastAnswer>>

ServerErrorSilent(i, code) ==
  /\ \/ srvErr[i] = "EADDRINUSE" /\ code = "EADDRINUSE"
     \/ srvErr[i] = Null /\ server[i] = "listening" /\ ~listenCb[i] /\ code = "EMFILE"
  /\ srvErr' = [srvErr EXCEPT ![i] = "handled"]
  /\ timer' = [timer EXCEPT ![i] = ClearTimeout(@)]
  /\ UNCHANGED <<nonLoginVars, scenario, started, port, server, listenCb, opener, conns, accepted, inflight,
                 promise, delivered, lateCall, processed, tokenRequests, lastReq, lastFlow, lastAnswer>>

\* server.on('error'): clearTimeout(timeoutId); reject(err).  The event is the
\* queued bind failure, or an accept failure of a listening server.
ServerError(i, code) ==
  /\ \/ srvErr[i] = "EADDRINUSE" /\ code = "EADDRINUSE"
     \/ srvErr[i] = Null /\ server[i] = "listening" /\ ~listenCb[i] /\ code = "EMFILE"
  /\ srvErr' = [srvErr EXCEPT ![i] = "handled"]
  /\ timer' = [timer EXCEPT ![i] = ClearTimeout(@)]
  /\ CallSettle(i, Rejected(IF code = "EADDRINUSE" THEN "bind-error" ELSE "listener-error",
                            code))
  /\ UNCHANGED <<nonLoginVars, scenario, started, port, server, listenCb, opener, conns, accepted, inflight,
                 processed, tokenRequests, lastReq, lastFlow, lastAnswer>>

\* a client connects to the listening socket
Accept(i) ==
  /\ server[i] = "listening"
  /\ ~listenCb[i]
  /\ accepted[i] < ScenarioMaxRequests(scenario)
  /\ accepted' = [accepted EXCEPT ![i] = @ + 1]
  /\ conns' = [conns EXCEPT ![i] = @ + 1]
  /\ UNCHANGED <<nonLoginVars, scenario, started, port, server, timer, srvErr, listenCb, opener, inflight,
                 promise, delivered, lateCall, processed, tokenRequests,
                 lastReq, lastFlow, lastAnswer>>

\* an accepted connection goes away before sending a request
DropConn(i) ==
  /\ conns[i] > 0
  /\ conns' = [conns EXCEPT ![i] = @ - 1]
  /\ UNCHANGED <<nonLoginVars, scenario, started, port, server, timer, srvErr, listenCb, opener, accepted,
                 inflight, promise, delivered, lateCall, processed, tokenRequests,
                 lastReq, lastFlow, lastAnswer>>

\* the branch of the request handler that a request takes
BranchStateFirst(r, state) ==
  IF r.path \in InvalidTargets THEN "throws"
  ELSE IF r.path # CALLBACK_PATH THEN "not-found"
  ELSE IF r.state # state THEN "invalid-state"
  ELSE IF Truthy(r.error) THEN "oauth-error"
  ELSE IF ~Truthy(r.code) THEN "no-code"
  ELSE "exchange"

BranchNoStateCheck(r, state) ==
  IF r.path \in InvalidTargets THEN "throws"
  ELSE IF r.path # CALLBACK_PATH THEN "not-found"
  ELSE IF Truthy(r.error) THEN "oauth-error"
  ELSE IF ~Truthy(r.code) THEN "no-code"
  ELSE "exchange"

BranchErrorIgnoresState(r, state) ==
  IF r.path \in InvalidTargets THEN "throws"
  ELSE IF r.path # CALLBACK_PATH THEN "not-found"
  ELSE IF Truthy(r.error) /\ r.state = state THEN "oauth-error"
  ELSE IF r.state # state THEN "invalid-state"
  ELSE IF ~Truthy(r.code) THEN "no-code"
  ELSE "exchange"

Branch(r, state) ==
  IF r.path \in InvalidTargets THEN "throws"
  ELSE IF r.path # CALLBACK_PATH THEN "not-found"
  ELSE IF Truthy(r.error) THEN "oauth-error"
  ELSE IF r.state # state THEN "invalid-state"
  ELSE IF ~Truthy(r.code) THEN "no-code"
  ELSE "exchange"

\* the Error each failing branch rejects with
BranchError(b, r) ==
  CASE b = "oauth-error" -> Rejected(b, "OAuth error: " \o Coalesce(r.desc, r.error))
    [] b = "invalid-state" -> Rejected(b, "Invalid state parameter")
    [] b = "no-code" -> Rejected(b, "No authorization code received")

\* res.writeHead(status) of each branch; a handler that throws writes nothing
Answer(b) ==
  CASE b = "throws" -> 0
    [] b = "not-found" -> 404
    [] OTHER -> 200

\* createServer callback, up to its await: one request of an accepted connection
HandleRequest(i, r) ==
  /\ conns[i] > 0
  /\ conns' = [conns EXCEPT ![i] = @ - 1]
  /\ lastReq' = r
  /\ lastFlow' = i
  /\ lastAnswer' = Answer(Branch(r, NonceOf(i)))
  /\ LET b == Branch(r, NonceOf(i)) IN
     CASE b \in {"not-found", "throws"} ->
            UNCHANGED <<timer, server, promise, delivered, lateCall, processed,
                        tokenRequests, inflight>>
       [] b = "exchange" ->
            /\ timer' = [timer EXCEPT ![i] = ClearTimeout(@)]
            /\ server' = [server EXCEPT ![i] = Close(@)]
            /\ processed' = [processed EXCEPT ![i] = @ + 1]
            /\ tokenRequests' = [tokenRequests EXCEPT ![i] = @ + 1]
            /\ inflight' = [inflight EXCEPT ![i] = @ + 1]
            /\ UNCHANGED <<promise, delivered, lateCall>>
       [] OTHER ->
            /\ timer' = [timer EXCEPT ![i] = ClearTimeout(@)]
            /\ server' = [server EXCEPT ![i] = Close(@)]
            /\ processed' = [processed EXCEPT ![i] = @ + 1]
            /\ CallSettle(i, BranchError(b, r))
            /\ UNCHANGED <<tokenRequests, inflight>>
  /\ UNCHANGED <<nonLoginVars, scenario, started, port, srvErr, listenCb, opener, accepted>>

\* the token request is answered: resolve(token) or reject(err)
ExchangeComplete(i, resp) ==
  /\ inflight[i] > 0
  /\ inflight' = [inflight EXCEPT ![i] = @ - 1]
  /\ CallSettle(i, ExchangeResult(resp))
  /\ UNCHANGED <<nonLoginVars, scenario, started, port, server, timer, srvErr, listenCb, opener, conns,
                 accepted, processed, tokenRequests, lastReq, lastFlow, lastAnswer>>

\* setTimeout callback: server.close(); reject(timeout).  Queued 'listening'
\* and bind-'error' events run on the next tick, before any timer.
WatchdogFire(i) ==
  /\ timer[i] = "pending"
  /\ ~listenCb[i]
  /\ srvErr[i] # "EADDRINUSE"
  /\ timer' = [timer EXCEPT ![i] = "fired"]
  /\ server' = [server EXCEPT ![i] = Close(@)]
  /\ CallSettle(i, Rejected("timeout", "Login callback timed out. Please try again."))
  /\ UNCHANGED <<nonLoginVars, scenario, started, port, srvErr, listenCb, opener, conns, accepted, inflight,
                 processed, tokenRequests, lastReq, lastFlow, lastAnswer>>

Next ==
  \/ \E i \in Flows, p \in Ports, free \in ScenarioPortFree(scenario) : Start(i, p, free)
  \/ \E i \in Flows, result \in {"ok", "rejecting", "threw"} : ListenCallback(i, result)
  \/ \E i \in Flows : OpenerFail(i)
  \/ \E i \in Flows, code \in {"EADDRINUSE", "EMFILE"} : ServerError(i, code)
  \/ \E i \in Flows : Accept(i)
  \/ \E i \in Flows : DropConn(i)
  \/ \E i \in Flows, r \in ScenarioRequests(scenario) : HandleRequest(i, r)
  \/ \E i \in Flows, resp \in ScenarioResponses(scenario) : ExchangeComplete(i, resp)
  \/ \E i \in Flows : WatchdogFire(i)

Spec == Init /\ [][Next]_vars

SpecConcurrent == InitConcurrent /\ [][Next]_vars

\* the same runs under fairness: a pending timer fires, queued 'listening'
\* and 'error' events and promise reactions run, an accepted request is
\* handled.  Nothing obliges the browser to connect or the token endpoint
\* to answer.
Fairness ==
  /\ WF_vars(WatchdogFire(1))
  /\ WF_vars(\E result \in {"ok", "rejecting", "threw"} : ListenCallback(1, result))
  /\ WF_vars(OpenerFail(1))
  /\ WF_vars(ServerError(1, "EADDRINUSE"))
  /\ WF_vars(\E r \in ScenarioRequests(scenario) : HandleRequest(1, r))

SpecLive == Init /\ [][Next]_vars /\ Fairness

InitProbe == scenario = "probe" /\ InitFlows /\ IdleNonLogin

SpecProbe == InitProbe /\ [][Next]_vars

\* ================================================= getAuthenticatedClient

\* what loginViaBrowser can settle with (every outcome of the login flow)
LoginResults ==
  {ExchangeResult(resp) : resp \in Responses}
    \cup {Rejected("timeout", "Login callback timed out. Please try again."),
          Rejected("invalid-state", "State mismatch")}

\* the token endpoint issues a different access token to each login
IssuedTo(c, outcome) ==
  IF outcome.kind = "resolved" /\ outcome.token.at # Null
  THEN [outcome EXCEPT !.token.at = IF c = 1 THEN "tok1" ELSE "tok2"]
  ELSE outcome

\* Date.now() - collected < maxAgeMs
FreshInclusive(cached, t, maxAge) == t - cached.collected <= maxAge

Fresh(cached, t, maxAge) == t - cached.collected < maxAge

\* the storage after a call was served from it: the hit branch returns
\* without calling storage.set
AfterHitRefresh(cached, t) == [cached EXCEPT !.collected = t]

AfterHit(cached, t) == cached

\* const cached: CachedToken = { accessToken, instanceUrl, timeCollected }
MakeRecord(tok, t) ==
  [present |-> TRUE, at |-> tok.at, iu |-> tok.iu, collected |-> t, obtained |-> t]

Value(at, iu) == [kind |-> "value", at |-> at, iu |-> iu]

Thrown(reason) == [kind |-> "error", at |-> reason, iu |-> Null]

\* entry: options read; `await storage.get()` when a storage is configured,
\* else loginViaBrowser is called at once
GetAuthenticatedClient(c, useStorage, maxAge) ==
  /\ gpc[c] = "idle"
  /\ opts' = [opts EXCEPT ![c] = [useStorage |-> useStorage, maxAge |-> maxAge]]
  /\ gpc' = [gpc EXCEPT ![c] = IF useStorage THEN "get" ELSE "login"]
  /\ loginCalled' = [loginCalled EXCEPT ![c] = ~useStorage]
  /\ UNCHANGED <<nonClientVars, clock, stored, token, cachedRec, returned, setCalls>>

\* storage.get() resolved: a fresh credential is returned, anything else
\* starts the login
StorageGet(c) ==
  /\ gpc[c] = "get"
  /\ IF stored.present /\ Fresh(stored, clock, opts[c].maxAge)
     THEN /\ returned' = [returned EXCEPT ![c] = Value(stored.at, stored.iu)]
          /\ gpc' = [gpc EXCEPT ![c] = "done"]
          /\ stored' = AfterHit(stored, clock)
          /\ UNCHANGED loginCalled
     ELSE /\ gpc' = [gpc EXCEPT ![c] = "login"]
          /\ loginCalled' = [loginCalled EXCEPT ![c] = TRUE]
          /\ UNCHANGED <<returned, stored>>
  /\ UNCHANGED <<nonClientVars, clock, opts, token, cachedRec, setCalls>>

LoginSettledForgetting(c, outcome) ==
  /\ gpc[c] = "login"
  /\ token' = [token EXCEPT ![c] = outcome]
  /\ IF outcome.kind = "rejected"
     THEN /\ gpc' = [gpc EXCEPT ![c] = "failed"]
          /\ returned' = [returned EXCEPT ![c] = Thrown(outcome.reason)]
          /\ stored' = IF opts[c].useStorage THEN NoCred ELSE stored
          /\ UNCHANGED cachedRec
     ELSE IF outcome.token.kind = "null"
     THEN /\ gpc' = [gpc EXCEPT ![c] = "failed"]
          /\ returned' = [returned EXCEPT ![c] = Thrown("type-error")]
          /\ UNCHANGED <<cachedRec, stored>>
     ELSE /\ cachedRec' = [cachedRec EXCEPT ![c] = MakeRecord(outcome.token, clock)]
          /\ UNCHANGED stored
          /\ IF opts[c].useStorage
             THEN /\ gpc' = [gpc EXCEPT ![c] = "set"]
                  /\ UNCHANGED returned
             ELSE /\ gpc' = [gpc EXCEPT ![c] = "done"]
                  /\ returned' =
                       [returned EXCEPT ![c] = Value(outcome.token.at, outcome.token.iu)]
  /\ UNCHANGED <<nonClientVars, clock, opts, loginCalled, setCalls>>

\* loginViaBrowser settled: a rejection propagates; token.access_token of a
\* null payload throws; otherwise the record is built and, with a storage,
\* `await storage.set(cached)` begins
LoginSettled(c, outcome) ==
  /\ gpc[c] = "login"
  /\ token' = [token EXCEPT ![c] = outcome]
  /\ IF outcome.kind = "rejected"
     THEN /\ gpc' = [gpc EXCEPT ![c] = "failed"]
          /\ returned' = [returned EXCEPT ![c] = Thrown(outcome.reason)]
          /\ UNCHANGED cachedRec
     ELSE IF outcome.token.kind = "null"
     THEN /\ gpc' = [gpc EXCEPT ![c] = "failed"]
          /\ returned' = [returned EXCEPT ![c] = Thrown("type-error")]
          /\ UNCHANGED cachedRec
     ELSE /\ cachedRec' = [cachedRec EXCEPT ![c] = MakeRecord(outcome.token, clock)]
          /\ IF opts[c].useStorage
             THEN /\ gpc' = [gpc EXCEPT ![c] = "set"]
                  /\ UNCHANGED returned
             ELSE /\ gpc' = [gpc EXCEPT ![c] = "done"]
                  /\ returned' =
                       [returned EXCEPT ![c] = Value(outcome.token.at, outcome.token.iu)]
  /\ UNCHANGED <<nonClientVars, clock, stored, opts, loginCalled, setCalls>>

\* storage.set(cached) resolved; the call returns the new credential
StorageSet(c) ==
  /\ gpc[c] = "set"
  /\ stored' = cachedRec[c]
  /\ setCalls' = [setCalls EXCEPT ![c] = @ + 1]
  /\ returned' = [returned EXCEPT ![c] = Value(cachedRec[c].at, cachedRec[c].iu)]
  /\ gpc' = [gpc EXCEPT ![c] = "done"]
  /\ UNCHANGED <<nonClientVars, clock, opts, loginCalled, token, cachedRec>>

\* time passes
Tick ==
  /\ clock < MaxClock
  /\ clock' = clock + 1
  /\ UNCHANGED <<nonClientVars, stored, gpc, opts, loginCalled, token, cachedRec, returned,
                 setCalls>>

\* the storage starts empty or with a credential saved by an earlier login
InitClient ==
  /\ IdleNonClient
  /\ clock = 0
  /\ stored \in {NoCred, StaleCred}
  /\ gpc = [c \in Calls |-> "idle"]
  /\ opts = [c \in Calls |-> NoOpts]
  /\ loginCalled = [c \in Calls |-> FALSE]
  /\ token = [c \in Calls |-> Pending]
  /\ cachedRec = [c \in Calls |-> NoCred]
  /\ returned = [c \in Calls |-> NoReturn]
  /\ setCalls = [c \in Calls |-> 0]

NextClient ==
  \/ \E c \in Calls, useStorage \in BOOLEAN, maxAge \in MaxAges :
       GetAuthenticatedClient(c, useStorage, maxAge)
  \/ \E c \in Calls : StorageGet(c)
  \/ \E c \in Calls, outcome \in LoginResults : LoginSettled(c, IssuedTo(c, outcome))
  \/ \E c \in Calls : StorageSet(c)
  \/ Tick

SpecClient == InitClient /\ [][NextClient]_vars

\* ========================================================= queryWorkItems

\* instanceUrl.replace(/\/$/, '')
StripTrailingSlash(u) ==
  IF Len(u) > 0 /\ u[Len(u)] = "/" THEN SubSeq(u, 1, Len(u) - 1) ELSE u

\* `${base}/services/data/${API_VERSION}/query?q=${encodeURIComponent(soql)}`
FirstUrl(base) == base \o <<QUERY_PATH, "?q=", "SELECT%20Id%20FROM%20ADM_Work__c">>

\* url = `${base}${body.nextRecordsUrl}`
NextUrlAsIs(base, next) == next

NextUrl(base, next) == base \o next

\* rec.f: undefined when the record has no property f
Get(v) == IF v = Absence THEN Undefined ELSE v

\* rec.f ?? ''
OrEmpty(v) == IF Get(v) \in {Null, Undefined} THEN "" ELSE v

\* rec.Parent?.f, here with f = DeveloperName and with f = Name
DeveloperNameOf(parent) ==
  IF parent.kind \in {"absent", "null"} THEN Undefined ELSE Get(parent.DeveloperName)

RelatedNameOf(parent) ==
  IF parent.kind \in {"absent", "null"} THEN Undefined ELSE Get(parent.Name)

ParseWorkItemWithPlaceholders(rec) ==
  [id |-> Get(rec.Id), name |-> OrEmpty(rec.Name), subject |-> OrEmpty(rec.Subject__c),
   status |-> OrEmpty(rec.Status__c),
   recordTypeDeveloperName |-> DeveloperNameOf(rec.RecordType),
   description |-> OrEmpty(rec.Details__c), currencyIsoCode |-> Get(rec.CurrencyIsoCode),
   severity |-> Get(rec.Severity__c), assigneeId |-> Get(rec.Assignee__c),
   createdDate |-> Get(rec.CreatedDate), lastModifiedDate |-> Get(rec.LastModifiedDate),
   productTagName |-> RelatedNameOf(rec.Product_Tag__r),
   epicName |-> RelatedNameOf(rec.Epic__r)]

ParseWorkItem(rec) ==
  [id |-> Get(rec.Id), name |-> OrEmpty(rec.Name), subject |-> OrEmpty(rec.Subject__c),
   status |-> OrEmpty(rec.Status__c),
   recordTypeDeveloperName |-> DeveloperNameOf(rec.RecordType),
   description |-> Get(rec.Details__c), currencyIsoCode |-> Get(rec.CurrencyIsoCode),
   severity |-> Get(rec.Severity__c), assigneeId |-> Get(rec.Assignee__c),
   createdDate |-> Get(rec.CreatedDate), lastModifiedDate |-> Get(rec.LastModifiedDate),
   productTagName |-> RelatedNameOf(rec.Product_Tag__r),
   epicName |-> RelatedNameOf(rec.Epic__r)]

\* for (const rec of body.records ?? []) allRecords.push(parseWorkItem(rec))
PushAllFirst(acc, recs) == [k \in 1..Len(recs) |-> ParseWorkItem(recs[k])] \o acc

PushAll(acc, recs) == acc \o [k \in 1..Len(recs) |-> ParseWorkItem(recs[k])]

\* res.json().catch(() => ({}))
PageJsonOrEmpty(body) == IF body.kind = "malformed" THEN EmptyPage ELSE body

\* one turn of the loop for the answer to the current request
PageStepLenient(resp) ==
  IF resp.transport = "fail" THEN [kind |-> "throw", msg |-> "fetch failed"]
  ELSE IF resp.body.kind = "throws" THEN [kind |-> "throw", msg |-> "Unexpected token"]
  ELSE LET data == PageJsonOrEmpty(resp.body) IN
    IF data.kind = "null"
    THEN [kind |-> "throw", msg |-> "Cannot read properties of null"]
    ELSE IF data.done = "true" \/ ~Ok(resp.status) THEN [kind |-> "last", msg |-> ""]
    ELSE IF data.hasNext /\ data.next # <<>> THEN [kind |-> "more", msg |-> ""]
    ELSE [kind |-> "last", msg |-> ""]

PageStepFollowsNext(resp) ==
  IF resp.transport = "fail" THEN [kind |-> "throw", msg |-> "fetch failed"]
  ELSE IF resp.body.kind = "throws" THEN [kind |-> "throw", msg |-> "Unexpected token"]
  ELSE LET data == PageJsonOrEmpty(resp.body) IN
    IF data.kind = "null"
    THEN [kind |-> "throw", msg |-> "Cannot read properties of null"]
    ELSE IF ~Ok(resp.status)
    THEN [kind |-> "throw",
          msg |-> "SOQL query failed: " \o
                    Coalesce(data.msg, "HTTP " \o ToString(resp.status))]
    ELSE IF data.hasNext /\ data.next # <<>> THEN [kind |-> "more", msg |-> ""]
    ELSE [kind |-> "last", msg |-> ""]

PageStep(resp) ==
  IF resp.transport = "fail" THEN [kind |-> "throw", msg |-> "fetch failed"]
  ELSE IF resp.body.kind = "throws" THEN [kind |-> "throw", msg |-> "Unexpected token"]
  ELSE LET data == PageJsonOrEmpty(resp.body) IN
    IF data.kind = "null"
    THEN [kind |-> "throw", msg |-> "Cannot read properties of null"]
    ELSE IF ~Ok(resp.status)
    THEN [kind |-> "throw",
          msg |-> "SOQL query failed: " \o
                    Coalesce(data.msg, "HTTP " \o ToString(resp.status))]
    ELSE IF data.done = "true" THEN [kind |-> "last", msg |-> ""]
    ELSE IF data.hasNext /\ data.next # <<>> THEN [kind |-> "more", msg |-> ""]
    ELSE [kind |-> "last", msg |-> ""]

Request(u, accessToken) == [url |-> u, authorization |-> "Bearer " \o accessToken]

\* entry up to the first `await req(url, ...)`
QueryWorkItems(instanceUrl, accessToken) ==
  /\ qpc = "idle"
  /\ qArgs' = [instanceUrl |-> instanceUrl, accessToken |-> accessToken]
  /\ url' = FirstUrl(StripTrailingSlash(instanceUrl))
  /\ qRequests' = <<Request(url', accessToken)>>
  /\ qpc' = "awaiting"
  /\ UNCHANGED <<nonQueryVars, allRecords, qPages, qResult>>

\* the pending request settles: the loop body runs to the next await, to the
\* return, or to a throw
PageResponse(resp) ==
  /\ qpc = "awaiting"
  /\ LET step == PageStep(resp)
         base == StripTrailingSlash(qArgs.instanceUrl)
         recs == PushAll(allRecords, PageJsonOrEmpty(resp.body).recs)
     IN /\ step.kind = "more" => Len(qRequests) < MaxPages
        /\ qPages' = Append(qPages, resp)
        /\ CASE step.kind = "throw" ->
                  /\ qpc' = "failed"
                  /\ qResult' = [kind |-> "error", records |-> <<>>, msg |-> step.msg]
                  /\ UNCHANGED <<url, allRecords, qRequests>>
             [] step.kind = "last" ->
                  /\ qpc' = "done"
                  /\ url' = <<>>
                  /\ allRecords' = recs
                  /\ qResult' = [kind |-> "value", records |-> recs, msg |-> ""]
                  /\ UNCHANGED qRequests
             [] step.kind = "more" ->
                  /\ qpc' = "awaiting"
                  /\ url' = NextUrl(base, resp.body.next)
                  /\ allRecords' = recs
                  /\ qRequests' = Append(qRequests, Request(url', qArgs.accessToken))
                  /\ UNCHANGED qResult
  /\ UNCHANGED <<nonQueryVars, qArgs>>

InitQuery == IdleNonQuery /\ IdleQuery

NextQuery ==
  \/ \E instanceUrl \in InstanceUrls, accessToken \in AccessTokens :
       QueryWorkItems(instanceUrl, accessToken)
  \/ \E resp \in PageResponses : PageResponse(resp)

SpecQuery == InitQuery /\ [][NextQuery]_vars

\* ======================================================= string functions

\* String.prototype.replace with a string replacement: "$$" inserts "$",
\* "$&" the match, "$`" the text before it, "$'" the text after it; any other
\* "$" is literal (the patterns used here have no capture group)
RECURSIVE Expand(_, _, _, _, _)
Expand(repl, j, matched, before, after) ==
  IF j > Len(repl) THEN <<>>
  ELSE IF repl[j] = "$" /\ j < Len(repl) /\ repl[j + 1] \in {"$", "&", "`", "'"}
  THEN (CASE repl[j + 1] = "$" -> <<"$">>
          [] repl[j + 1] = "&" -> matched
          [] repl[j + 1] = "`" -> before
          [] repl[j + 1] = "'" -> after)
         \o Expand(repl, j + 2, matched, before, after)
  ELSE <<repl[j]>> \o Expand(repl, j + 1, matched, before, after)

Matches(s, i, pat) == i + Len(pat) - 1 <= Len(s) /\ SubSeq(s, i, i + Len(pat) - 1) = pat

\* the matches are found in the original string, left to right, without
\* overlap; with the g flag all of them are replaced, else the first only
RECURSIVE ReplaceFrom(_, _, _, _, _)
ReplaceFrom(s, i, pat, repl, global) ==
  IF i > Len(s) THEN <<>>
  ELSE IF Matches(s, i, pat)
  THEN Expand(repl, 1, pat, SubSeq(s, 1, i - 1), SubSeq(s, i + Len(pat), Len(s)))
         \o (IF global THEN ReplaceFrom(s, i + Len(pat), pat, repl, global)
             ELSE SubSeq(s, i + Len(pat), Len(s)))
  ELSE <<s[i]>> \o ReplaceFrom(s, i + 1, pat, repl, global)

Placeholder(key) == <<"$", Brace(key)>>

\* values.me ?? '${me}'
OrPlaceholder(value, key) == IF value.given THEN value.v ELSE Placeholder(key)

\* s.replace(/\$\{key\}/g, value ?? '${key}')
ReplaceKey(s, key, value) ==
  ReplaceFrom(s, 1, Placeholder(key), OrPlaceholder(value, key), TRUE)

SubstituteQueryTemplate(tmpl, vals) ==
  ReplaceKey(ReplaceKey(ReplaceKey(tmpl, "me", vals.me), "team", vals.team),
             "product_tag", vals.product_tag)

\* the values object a caller passes when it supplies only the keys in S
Only(vals, S) == [key \in Keys |-> IF key \in S THEN vals[key] ELSE Absent]

GivenKeys(vals) == {key \in Keys : vals[key].given}

\* one call of substituteQueryTemplate on the string obtained so far, with
\* some of the values not passed yet (none at all only in a first call)
Substitute(S) ==
  /\ S \subseteq GivenKeys(values) \ applied
  /\ S # {} \/ substCalls = 0
  /\ current' = SubstituteQueryTemplate(current, Only(values, S))
  /\ applied' = applied \cup S
  /\ substCalls' = substCalls + 1
  /\ UNCHANGED <<nonTemplateVars, template, values>>

InitTemplate ==
  /\ IdleNonTemplate
  /\ template \in Templates
  /\ values \in TemplateValues
  /\ current = template
  /\ applied = {}
  /\ substCalls = 0

NextTemplate == \E S \in SUBSET Keys : Substitute(S)

SpecTemplate == InitTemplate /\ [][NextTemplate]_vars

\* s.replace(/'/g, "''")
EscapeSoqlStringFirstOnly(s) == ReplaceFrom(s, 1, <<"'">>, <<"'", "'">>, FALSE)

EscapeSoqlString(s) == ReplaceFrom(s, 1, <<"'">>, <<"'", "'">>, TRUE)

EscapeSoql ==
  /\ ~escDone
  /\ escOut' = EscapeSoqlString(escIn)
  /\ escDone' = TRUE
  /\ UNCHANGED <<nonEscapeVars, escIn>>

InitEscape ==
  /\ IdleNonEscape
  /\ escIn \in StringsUpTo(EscapeAtoms, MaxStringLen)
  /\ escOut = <<>>
  /\ escDone = FALSE

NextEscape == EscapeSoql

SpecEscape == InitEscape /\ [][NextEscape]_vars

\* ------------------------------------------------------- escapeSoslString
\* search terms to escape have at most
MaxSoslLen == 2

\* the character class [?&|!{}[\]()^~:\\"'+=-]
SoslClass ==
  {"?", "&", "|", "!", "{", "}", "[", "]", "(", ")", "^", "~", ":", "\\", "\"", "'", "+",
   "=", "-"}

SoslAtoms == SoslClass \cup {"*", "a", "$"}

\* s.replace(/[class]/g, repl): every character of the class is a match
RECURSIVE ReplaceCharsFrom(_, _, _, _)
ReplaceCharsFrom(s, i, class, repl) ==
  IF i > Len(s) THEN <<>>
  ELSE IF s[i] \in class
  THEN Expand(repl, 1, <<s[i]>>, SubSeq(s, 1, i - 1), SubSeq(s, i + 1, Len(s)))
         \o ReplaceCharsFrom(s, i + 1, class, repl)
  ELSE <<s[i]>> \o ReplaceCharsFrom(s, i + 1, class, repl)

\* s.replace(/[?&|!{}[\]()^~:\\"'+=-]/g, '\\$&')
EscapeSoslStringStar(s) ==
  ReplaceCharsFrom(s, 1, SoslClass \cup {"*"}, <<"\\", "$", "&">>)

EscapeSoslString(s) == ReplaceCharsFrom(s, 1, SoslClass, <<"\\", "$", "&">>)

EscapeSosl ==
  /\ ~escDone
  /\ escOut' = EscapeSoslString(escIn)
  /\ escDone' = TRUE
  /\ UNCHANGED <<nonEscapeVars, escIn>>

InitSosl ==
  /\ IdleNonEscape
  /\ escIn \in StringsUpTo(SoslAtoms, MaxSoslLen)
  /\ escOut = <<>>
  /\ escDone = FALSE

NextSosl == EscapeSosl

SpecSosl == InitSosl /\ [][NextSosl]_vars

\* ========================================================= resolveProject

\* String.prototype.toLowerCase
ToLowerCase(s) == [k \in 1..Len(s) |-> IF s[k] = "A" THEN "a" ELSE s[k]]

\* String.prototype.includes
Includes(s, q) == \E i \in 0..(Len(s) - Len(q)) : SubSeq(s, i + 1, i + Len(q)) = q

\* projects.find((p) => p.toLowerCase() === lowerQuery): index of the first
\* such project, 0 when there is none
FindExact(query, projects) ==
  LET hits == {k \in 1..Len(projects) : ToLowerCase(projects[k]) = ToLowerCase(query)} IN
    IF hits = {} THEN 0 ELSE CHOOSE k \in hits : \A j \in hits : k <= j

\* projects.filter((p) => p.toLowerCase().includes(lowerQuery))
FilterMatchesCaseSensitive(query, projects) ==
  SelectSeq(projects, LAMBDA p : Includes(p, query))

FilterMatches(query, projects) ==
  SelectSeq(projects, LAMBDA p : Includes(ToLowerCase(p), ToLowerCase(query)))

\* names.map((m) => `  - ${m}`), the lines joined by "\n" in the message
ListLinesReversed(names) ==
  [k \in 1..Len(names) |-> <<"  - ">> \o names[Len(names) + 1 - k]]

ListLines(names) == [k \in 1..Len(names) |-> <<"  - ">> \o names[k]]

\* `if (exact)`: a string found by find() is used when it is not empty
ResolveProject(query, projects) ==
  LET e == FindExact(query, projects)
      matches == FilterMatches(query, projects)
  IN IF e # 0 /\ projects[e] # <<>>
     THEN [kind |-> "value", name |-> projects[e], lines |-> <<>>]
     ELSE IF Len(matches) = 1
     THEN [kind |-> "value", name |-> matches[1], lines |-> <<>>]
     ELSE IF Len(matches) > 1
     THEN [kind |-> "ambiguous", name |-> query, lines |-> ListLines(matches)]
     ELSE [kind |-> "not-found", name |-> query, lines |-> ListLines(projects)]

Resolve ==
  /\ rResult = NoResolution
  /\ rResult' = ResolveProject(rQuery, rProjects)
  /\ UNCHANGED <<nonResolveVars, rQuery, rProjects>>

RECURSIVE ListsUpTo(_, _)
ListsUpTo(elems, n) ==
  IF n = 0 THEN {<<>>}
  ELSE LET shorter == ListsUpTo(elems, n - 1) IN
    shorter \cup {Append(l, e) : l \in shorter, e \in elems}

InitResolve ==
  /\ IdleNonResolve
  /\ rQuery \in Names
  /\ rProjects \in ListsUpTo(Names, MaxProjects)
  /\ rResult = NoResolution

NextResolve == Resolve

SpecResolve == InitResolve /\ [][NextResolve]_vars

\* ------------------------------------------- createWorkItem, createEpic
EPIC_NAME == "Q3 reliability"

CoreRequest(kind, method, base, key, restricted, teams) ==
  [kind |-> kind, method |-> method, base |-> base, key |-> key,
   restricted |-> restricted, teams |-> teams]

CoreValue(id, name, recordUrl, items) ==
  [kind |-> "value", msg |-> <<>>, id |-> id, name |-> name, url |-> recordUrl,
   items |-> items]

CoreError(msg) ==
  [kind |-> "error", msg |-> msg, id |-> Null, name |-> Null, url |-> <<>>, items |-> <<>>]

\* a rejected request and a property read on `null` both end the operation
NetworkError == CoreError(<<"request rejected">>)
TypeError == CoreError(<<"TypeError: cannot read properties of null">>)

\* res.json().catch(() => ({}))
CoreJsonOrEmpty(body) == IF body.kind = "malformed" THEN EmptyBody ELSE body

\* (Array.isArray(data.errors) ? data.errors[0] : data.errors)?.message
FirstErrorMessage(data) ==
  IF data.hasErrors /\ Len(data.errors) > 0 THEN data.errors[1] ELSE Null

CreateFailedPrefix(name) ==
  IF name = "createWorkItem" THEN "Create work item failed: HTTP " ELSE "Create epic failed: HTTP "

NoIdMessage(name) ==
  IF name = "createWorkItem" THEN "Create work item returned no id"
  ELSE "Create epic returned no id"

\* the part createWorkItem and createEpic share: what the answer to the
\* creation POST leads to; "go" stands for a usable id
CreateOutcome(name, a) ==
  LET data == CoreJsonOrEmpty(a.body) IN
  IF a.transport = "fail" THEN NetworkError
  ELSE IF data.kind = "null" THEN TypeError
  ELSE IF ~Ok(a.status) \/ data.success # "true"
    THEN IF FirstErrorMessage(data) # Null
           THEN CoreError(<<FirstErrorMessage(data)>>)
           ELSE CoreError(<<CreateFailedPrefix(name), ToString(a.status)>>)
  ELSE IF ~Truthy(data.id) THEN CoreError(<<NoIdMessage(name)>>)
  ELSE [NoOpResult EXCEPT !.kind = "go", !.id = data.id]

\* records?.[0] && 'Name' in records[0] ? String(records[0].Name ?? id) : id
NameOf(data, workItemId) ==
  IF data.hasRecs /\ Len(data.recs) > 0 /\ data.recs[1] # Absence
    THEN IF data.recs[1] = Null THEN workItemId ELSE data.recs[1]
    ELSE workItemId

RecordUrl(base, id) == base \o <<"/", id>>

CallCreate(name, instanceUrl) ==
  /\ opPc = "idle"
  /\ op' = [NoOp EXCEPT !.name = name, !.instanceUrl = instanceUrl]
  /\ opSent' = <<CoreRequest("create", "POST", StripTrailingSlash(instanceUrl), <<>>,
                             FALSE, <<>>)>>
  /\ opPc' = "create"
  /\ UNCHANGED <<opGot, opTeams, opResult, nonCoreVars>>

CreateAnswered(a) ==
  /\ opPc = "create"
  /\ opGot' = Append(opGot, a)
  /\ LET base == StripTrailingSlash(op.instanceUrl)
         out == CreateOutcome(op.name, a)
     IN  IF out.kind = "error"
           THEN /\ opResult' = out
                /\ opPc' = "failed"
                /\ UNCHANGED opSent
         ELSE IF op.name = "createEpic"
           THEN /\ opResult' = CoreValue(out.id, EPIC_NAME, RecordUrl(base, out.id), <<>>)
                /\ opPc' = "done"
                /\ UNCHANGED opSent
         ELSE /\ opSent' = Append(opSent, CoreRequest("name-lookup", "GET", base, <<out.id>>,
                                                      FALSE, <<>>))
              /\ opPc' = "name-lookup"
              /\ UNCHANGED opResult
  /\ UNCHANGED <<op, opTeams, nonCoreVars>>

NameLookupAnswered(a) ==
  /\ opPc = "name-lookup"
  /\ opGot' = Append(opGot, a)
  /\ LET base == StripTrailingSlash(op.instanceUrl)
         workItemId == opSent[2].key[1]
         getData == CoreJsonOrEmpty(a.body)
     IN  IF a.transport = "fail"
           THEN opResult' = NetworkError /\ opPc' = "failed"
         ELSE IF getData.kind = "null"
           THEN opResult' = TypeError /\ opPc' = "failed"
         ELSE /\ opResult' = CoreValue(workItemId, NameOf(getData, workItemId),
                                       RecordUrl(base, workItemId), <<>>)
              /\ opPc' = "done"
  /\ UNCHANGED <<op, opSent, opTeams, nonCoreVars>>

\* ---------- fetchUserInfo, searchProductTags, searchEpics, getRecordTypeIds
SearchTerms == {<<>>, <<" ">>, <<"e", "p">>, <<" ", "(", "e", " ">>}

RECURSIVE TrimStart(_)
TrimStart(s) == IF Len(s) > 0 /\ s[1] = " " THEN TrimStart(Tail(s)) ELSE s

RECURSIVE TrimEnd(_)
TrimEnd(s) ==
  IF Len(s) > 0 /\ s[Len(s)] = " " THEN TrimEnd(SubSeq(s, 1, Len(s) - 1)) ELSE s

Trim(s) == TrimEnd(TrimStart(s))

\* FIND {<escaped>*}
FindTermUntrimmed(searchTerm) == EscapeSoslString(searchTerm) \o <<"*">>

FindTerm(searchTerm) == EscapeSoslString(Trim(searchTerm)) \o <<"*">>

SearchFailedPrefix(name) ==
  IF name = "searchEpics" THEN "Epic search failed: " ELSE "Product tag search failed: "

\* fetchUserInfo: the user id of a success answer, an error otherwise
FetchUserInfo(a) ==
  LET data == CoreJsonOrEmpty(a.body) IN
  IF a.transport = "fail" THEN NetworkError
  ELSE IF ~Ok(a.status)
    THEN IF data.kind = "null" THEN TypeError
         ELSE IF data.kind = "object" /\ data.msg # Null
           THEN CoreError(<<"User info failed: ", data.msg>>)
         ELSE CoreError(<<"User info failed: ", "HTTP ", ToString(a.status)>>)
  ELSE CoreValue(data.userId, Null, <<>>, <<>>)

\* getCurrentUserId: try { (await fetchUserInfo(..))?.user_id ?? null } catch { null }
GetCurrentUserId(a) ==
  IF FetchUserInfo(a).kind = "error" THEN Null ELSE FetchUserInfo(a).id

\* getUserTeamIds after the team query was answered
TeamIds(a) ==
  LET data == CoreJsonOrEmpty(a.body) IN
  IF a.transport = "fail" THEN NetworkError
  ELSE IF ~Ok(a.status) THEN CoreValue(Null, Null, <<>>, <<>>)
  ELSE IF data.kind = "null" THEN TypeError
  ELSE CoreValue(Null, Null, <<>>,
                 SelectSeq(data.recs, LAMBDA id : id # Absence /\ Truthy(id)))

\* the search request; whereClause is set only for a non-empty list of ids
SearchRequest(base, searchTerm, teamIds) ==
  CoreRequest("search", "GET", base, FindTerm(searchTerm), Len(teamIds) > 0, teamIds)

SearchOutcome(name, a) ==
  LET data == CoreJsonOrEmpty(a.body) IN
  IF a.transport = "fail" THEN NetworkError
  ELSE IF data.kind = "null" THEN TypeError
  ELSE IF ~Ok(a.status)
    THEN IF data.msg # Null THEN CoreError(<<SearchFailedPrefix(name), data.msg>>)
         ELSE CoreError(<<SearchFailedPrefix(name), "HTTP ", ToString(a.status)>>)
  ELSE CoreValue(Null, Null, <<>>, data.recs)

\* getRecordTypeIds: the DeveloperNames the map has an entry for
RecordTypeIds(a) ==
  LET data == CoreJsonOrEmpty(a.body) IN
  IF a.transport = "fail" THEN NetworkError
  ELSE IF ~Ok(a.status) THEN CoreValue(Null, Null, <<>>, <<>>)
  ELSE IF data.kind = "null" THEN TypeError
  ELSE CoreValue(Null, Null, <<>>,
                 SelectSeq(data.recs, LAMBDA dn : dn # Absence /\ Truthy(dn)))

Finish(result) ==
  /\ opResult' = result
  /\ opPc' = IF result.kind = "error" THEN "failed" ELSE "done"

CallFetchUserInfo(instanceUrl) ==
  /\ opPc = "idle"
  /\ op' = [NoOp EXCEPT !.name = "fetchUserInfo", !.instanceUrl = instanceUrl]
  /\ opSent' = <<CoreRequest("userinfo", "GET", StripTrailingSlash(instanceUrl), <<>>,
                             FALSE, <<>>)>>
  /\ opPc' = "userinfo"
  /\ UNCHANGED <<opGot, opTeams, opResult, nonCoreVars>>

CallGetRecordTypeIds(instanceUrl) ==
  /\ opPc = "idle"
  /\ op' = [NoOp EXCEPT !.name = "getRecordTypeIds", !.instanceUrl = instanceUrl]
  /\ opSent' = <<CoreRequest("record-types", "GET", StripTrailingSlash(instanceUrl), <<>>,
                             FALSE, <<>>)>>
  /\ opPc' = "record-types"
  /\ UNCHANGED <<opGot, opTeams, opResult, nonCoreVars>>

CallSearch(name, instanceUrl, searchTerm, restrictToMyTeams) ==
  /\ opPc = "idle"
  /\ op' = [name |-> name, instanceUrl |-> instanceUrl, searchTerm |-> searchTerm,
            restrictToMyTeams |-> restrictToMyTeams]
  /\ LET base == StripTrailingSlash(instanceUrl) IN
     IF Trim(searchTerm) = <<>>
       THEN /\ Finish(CoreValue(Null, Null, <<>>, <<>>))
            /\ UNCHANGED opSent
     ELSE IF name = "searchEpics" /\ restrictToMyTeams
       THEN /\ opSent' = <<CoreRequest("userinfo", "GET", base, <<>>, FALSE, <<>>)>>
            /\ opPc' = "userinfo"
            /\ UNCHANGED opResult
     ELSE /\ opSent' = <<SearchRequest(base, searchTerm, <<>>)>>
          /\ opPc' = "search"
          /\ UNCHANGED opResult
  /\ UNCHANGED <<opGot, opTeams, nonCoreVars>>

UserInfoAnswered(a) ==
  /\ opPc = "userinfo"
  /\ opGot' = Append(opGot, a)
  /\ LET base == StripTrailingSlash(op.instanceUrl)
         userId == GetCurrentUserId(a)
     IN  IF op.name = "fetchUserInfo"
           THEN Finish(FetchUserInfo(a)) /\ UNCHANGED opSent
         ELSE IF ~Truthy(userId)
           THEN /\ opSent' = Append(opSent, SearchRequest(base, op.searchTerm, <<>>))
                /\ opPc' = "search"
                /\ UNCHANGED opResult
         ELSE /\ opSent' = Append(opSent, CoreRequest("team-lookup", "GET", base, <<userId>>,
                                                      FALSE, <<>>))
              /\ opPc' = "team-lookup"
              /\ UNCHANGED opResult
  /\ UNCHANGED <<op, opTeams, nonCoreVars>>

TeamLookupAnswered(a) ==
  /\ opPc = "team-lookup"
  /\ opGot' = Append(opGot, a)
  /\ LET base == StripTrailingSlash(op.instanceUrl)
         teamIds == TeamIds(a)
     IN  IF teamIds.kind = "error"
           THEN Finish(teamIds) /\ UNCHANGED <<opSent, opTeams>>
         ELSE /\ opTeams' = teamIds.items
              /\ opSent' = Append(opSent, SearchRequest(base, op.searchTerm, teamIds.items))
              /\ opPc' = "search"
              /\ UNCHANGED opResult
  /\ UNCHANGED <<op, nonCoreVars>>

SearchAnswered(a) ==
  /\ opPc = "search"
  /\ opGot' = Append(opGot, a)
  /\ Finish(SearchOutcome(op.name, a))
  /\ UNCHANGED <<op, opSent, opTeams, nonCoreVars>>

RecordTypesAnswered(a) ==
  /\ opPc = "record-types"
  /\ opGot' = Append(opGot, a)
  /\ Finish(RecordTypeIds(a))
  /\ UNCHANGED <<op, opSent, opTeams, nonCoreVars>>

InitCore == IdleCore /\ IdleNonCore

NextCore ==
  \/ \E name \in {"createWorkItem", "createEpic"}, u \in InstanceUrls : CallCreate(name, u)
  \/ \E a \in AnswersTo("create") : CreateAnswered(a)
  \/ \E a \in AnswersTo("name-lookup") : NameLookupAnswered(a)
  \/ \E u \in InstanceUrls : CallFetchUserInfo(u)
  \/ \E u \in InstanceUrls : CallGetRecordTypeIds(u)
  \/ \E name \in {"searchEpics", "searchProductTags"}, u \in InstanceUrls,
        t \in SearchTerms, r \in BOOLEAN : CallSearch(name, u, t, r)
  \/ \E a \in AnswersTo("userinfo") : UserInfoAnswered(a)
  \/ \E a \in AnswersTo("team-lookup") : TeamLookupAnswered(a)
  \/ \E a \in AnswersTo("search") : SearchAnswered(a)
  \/ \E a \in AnswersTo("record-types") : RecordTypesAnswered(a)

SpecCore == InitCore /\ [][NextCore]_vars

\* ----------------------------------------------------------- resolveConfig
\* { ...a, ...b }: a new object with the own properties of a, then of b
Spread(a, b) ==
  [f \in DOMAIN a \cup DOMAIN b |-> IF f \in DOMAIN b THEN b[f] ELSE a[f]]

ResolveConfigDefaultsWin(partial) ==
  Spread(IF partial.given THEN partial.fields ELSE <<>>, defaultConfig)

ResolveConfig(partial) ==
  Spread(defaultConfig, IF partial.given THEN partial.fields ELSE <<>>)

\* const config = resolveConfig(options.config), first statement of a caller
ResolveConfigCall(caller, partial) ==
  /\ cfgCaller' = caller
  /\ cfgPartial' = partial
  /\ cfgEffective' = ResolveConfig(partial)
  /\ UNCHANGED <<defaultConfig, nonConfigVars>>

InitConfig == IdleConfig /\ IdleNonConfig

NextConfig == \E caller \in ConfigCallers, partial \in ConfigArguments :
                ResolveConfigCall(caller, partial)

SpecConfig == InitConfig /\ [][NextConfig]_vars

\* ---------------------------------------------------- generateCodeVerifier
\* the base64url alphabet (RFC 4648, table 2), indexed by sextet + 1
BASE64URL ==
  <<"A", "B", "C", "D", "E", "F", "G", "H", "I", "J", "K", "L", "M", "N", "O", "P",
    "Q", "R", "S", "T", "U", "V", "W", "X", "Y", "Z", "a", "b", "c", "d", "e", "f",
    "g", "h", "i", "j", "k", "l", "m", "n", "o", "p", "q", "r", "s", "t", "u", "v",
    "w", "x", "y", "z", "0", "1", "2", "3", "4", "5", "6", "7", "8", "9", "-", "_">>

\* the sextets of a byte string: four for every three bytes, two or three for
\* a rest of one or two bytes
RECURSIVE Sextets(_)
Sextets(bytes) ==
  IF Len(bytes) = 0 THEN <<>>
  ELSE IF Len(bytes) = 1
    THEN <<bytes[1] \div 4, (bytes[1] % 4) * 16>>
  ELSE IF Len(bytes) = 2
    THEN <<bytes[1] \div 4, (bytes[1] % 4) * 16 + bytes[2] \div 16, (bytes[2] % 16) * 4>>
  ELSE <<bytes[1] \div 4, (bytes[1] % 4) * 16 + bytes[2] \div 16,
         (bytes[2] % 16) * 4 + bytes[3] \div 64, bytes[3] % 64>>
       \o Sextets(SubSeq(bytes, 4, Len(bytes)))

\* buf.toString('base64'): padded to a multiple of four with "="
ToBase64Padded(bytes) ==
  LET s == Sextets(bytes)
      chars == [i \in 1..Len(s) |-> BASE64URL[s[i] + 1]]
  IN  chars \o [i \in 1..((4 - (Len(s) % 4)) % 4) |-> "="]

\* buf.toString('base64url'): no padding
ToBase64Url(bytes) ==
  LET s == Sextets(bytes) IN [i \in 1..Len(s) |-> BASE64URL[s[i] + 1]]

\* randomBytes(n), sampled: a pattern of three bytes repeated to n bytes
RandomBytes(n, pattern) == [i \in 1..n |-> pattern[((i - 1) % 3) + 1]]

GenerateCodeVerifier(pattern) ==
  /\ verifier = <<>>
  /\ entropy' = RandomBytes(VERIFIER_BYTES, pattern)
  /\ verifier' = ToBase64Url(entropy')
  /\ UNCHANGED nonPkceVars

InitPkce == IdlePkce /\ IdleNonPkce

NextPkce == \E pattern \in [1..3 -> ByteValues] : GenerateCodeVerifier(pattern)

SpecPkce == InitPkce /\ [][NextPkce]_vars

\* ------------------------------------------------------------ parseWorkItem
ParseRecord ==
  /\ ~parsed
  /\ workItem' = ParseWorkItem(rawRecord)
  /\ parsed' = TRUE
  /\ UNCHANGED <<rawRecord, nonParseVars>>

InitParse ==
  /\ rawRecord \in RawRecords
  /\ workItem = NoWorkItem
  /\ parsed = FALSE
  /\ IdleNonParse

NextParse == ParseRecord

SpecParse == InitParse /\ [][NextParse]_vars

\* --------------------------------------- loginViaBrowser: port and redirect
\* options.port ?? 1717
PortOrDefault(p) == IF p.given THEN p.value ELSE DEFAULT_PORT

\* buildAuthUrl and exchangeCodeForToken: resolveConfig(config).redirectUri,
\* where config is the configuration loginViaBrowser resolved
RedirectUriOf(config) == ResolveConfig([given |-> TRUE, fields |-> config]).redirectUri

\* loginViaBrowser up to server.listen: the configuration is resolved, the
\* port is chosen, the authorization URL is built, the listener is bound
LoginSetup(p, partial) ==
  /\ setupPc = "idle"
  /\ loginOptions' = [port |-> p, config |-> partial]
  /\ listenPort' = PortOrDefault(p)
  /\ authRedirectUri' = RedirectUriOf(ResolveConfig(partial))
  /\ setupPc' = "listening"
  /\ UNCHANGED <<tokenRedirectUri, nonListenVars>>

\* the handler's exchangeCodeForToken(code, verifier, config, requestFn)
TokenRequest ==
  /\ setupPc = "listening"
  /\ tokenRedirectUri' = RedirectUriOf(ResolveConfig(loginOptions.config))
  /\ setupPc' = "exchanged"
  /\ UNCHANGED <<loginOptions, listenPort, authRedirectUri, nonListenVars>>

InitListen == IdleListen /\ IdleNonListen

NextListen ==
  \/ \E p \in PortOptions, partial \in ConfigArguments : LoginSetup(p, partial)
  \/ TokenRequest

SpecListen == InitListen /\ [][NextListen]_vars

\* ------------------------------------------------------------- plugin data
\* Object.assign({}, DEFAULT_SETTINGS, data): every own property of the data
\* is copied over the defaults, the cached credential included
AssignSettings(data) ==
  [exists |-> TRUE,
   textValue |-> IF data.textValue = Absence THEN DEFAULT_SETTINGS.textValue
                 ELSE data.textValue,
   gusToken |-> data.gusToken]

\* { ...(d ?? {}), gusToken: data }
WithToken(d, data) == [exists |-> TRUE, textValue |-> d.textValue, gusToken |-> data]

\* onload: await this.loadSettings()
LoadSettings ==
  /\ ~loaded
  /\ settings' = AssignSettings(dataJson)
  /\ loaded' = TRUE
  /\ UNCHANGED <<dataJson, pendingSet, credential, nonDataVars>>

\* the settings tab: this.plugin.settings.textValue = value;
\* await this.plugin.saveSettings(), which is saveData(this.settings)
ChangeSetting(value) ==
  /\ loaded
  /\ settings.textValue # value
  /\ settings' = [settings EXCEPT !.textValue = value]
  /\ dataJson' = settings'
  /\ UNCHANGED <<loaded, pendingSet, credential, nonDataVars>>

\* gusTokenStorage.set(data): plugin.loadData() ...; every login obtains
\* a token of its own
TokenSetLoad(data) ==
  /\ loaded
  /\ ~pendingSet.active
  /\ credential # data
  /\ pendingSet' = [active |-> TRUE, d |-> dataJson, data |-> data]
  /\ UNCHANGED <<dataJson, settings, loaded, credential, nonDataVars>>

\* ... .then((d) => plugin.saveData({ ...(d ?? {}), gusToken: data }))
TokenSetSave ==
  /\ pendingSet.active
  /\ dataJson' = WithToken(pendingSet.d, pendingSet.data)
  /\ credential' = pendingSet.data
  /\ pendingSet' = NoSet
  /\ UNCHANGED <<settings, loaded, nonDataVars>>

\* the data file is missing, or was left by an earlier session, with or
\* without a credential
InitData ==
  /\ dataJson \in DataFiles
  /\ settings = NoData
  /\ loaded = FALSE
  /\ pendingSet = NoSet
  /\ credential = dataJson.gusToken
  /\ IdleNonData

NextData ==
  \/ LoadSettings
  \/ \E value \in TextValues : ChangeSetting(value)
  \/ \E data \in CachedTokens : TokenSetLoad(data)
  \/ TokenSetSave

SpecData == InitData /\ [][NextData]_vars

\* ================================================================ claims

\* C1: an invocation delivers at most one outcome: the caller never observes
\* two outcomes, and once the promise is settled its outcome is the only one
\* ever delivered, whatever resolve/reject calls follow.
C1_SingleOutcome ==
  \A i \in Flows :
    /\ Cardinality(delivered[i]) <= 1
    /\ promise[i] = Pending => delivered[i] = {}
    /\ promise[i] # Pending => delivered[i] = {promise[i]}

\* a resolve/reject call reached an already settled promise
C1_Witness == lateCall[1] /\ promise[1] # Pending

\* C2: whenever the outcome has been delivered, the listener is no longer
\* bound and the watchdog timer is no longer pending.
C2_ReleasedOnExit ==
  \A i \in Flows :
    promise[i] # Pending => server[i] # "listening" /\ timer[i] # "pending"

\* C3 (as stated): a token request is sent only for a redirect-path request
\* that carries no error parameter, the state of this invocation and a code;
\* a redirect-path request with another state sends none and, when it has no
\* error parameter and no outcome was delivered yet, fails the flow with
\* "invalid state".
C3_Original ==
  [][\A i \in Flows : LET r == lastReq' IN
       HandleRequest(i, r) =>
         /\ tokenRequests'[i] # tokenRequests[i] =>
              /\ r.path = CALLBACK_PATH
              /\ r.error = Null
              /\ r.state = NonceOf(i)
              /\ r.code # Null
         /\ r.path = CALLBACK_PATH /\ r.state # NonceOf(i) =>
              /\ tokenRequests'[i] = tokenRequests[i]
              /\ r.error = Null /\ promise[i] = Pending =>
                   promise'[i] = Rejected("invalid-state", "Invalid state parameter")]_vars

\* C3 (amended): as C3, with "carries no error parameter" replaced by "carries
\* no error parameter or an empty one".
C3_StateGuardsExchange ==
  [][\A i \in Flows : LET r == lastReq' IN
       HandleRequest(i, r) =>
         /\ tokenRequests'[i] # tokenRequests[i] =>
              /\ r.path = CALLBACK_PATH
              /\ r.error \in {Null, ""}
              /\ r.state = NonceOf(i)
              /\ r.code # Null
         /\ r.path = CALLBACK_PATH /\ r.state # NonceOf(i) =>
              /\ tokenRequests'[i] = tokenRequests[i]
              /\ r.error \in {Null, ""} /\ promise[i] = Pending =>
                   promise'[i] = Rejected("invalid-state", "Invalid state parameter")]_vars

\* a callback with a code and a foreign state failed the flow, no token request
C3_Witness ==
  /\ lastFlow = 1
  /\ lastReq.path = CALLBACK_PATH
  /\ lastReq.error = Null
  /\ lastReq.state = "nonceB"
  /\ lastReq.code = "mock_auth_code"
  /\ promise[1].reason = "invalid-state"
  /\ tokenRequests[1] = 0

C5_Original ==
  [][\A i \in Flows : LET r == lastReq' IN
       HandleRequest(i, r) /\ r.path = CALLBACK_PATH /\ r.error # Null
         /\ promise[i] = Pending =>
           /\ promise'[i] =
                Rejected("oauth-error",
                         "OAuth error: " \o (IF r.desc # Null THEN r.desc ELSE r.error))
           /\ tokenRequests'[i] = tokenRequests[i]]_vars

\* C5 (amended): the same for an error parameter that is present and not empty.
C5_OAuthError ==
  [][\A i \in Flows : LET r == lastReq' IN
       HandleRequest(i, r) /\ r.path = CALLBACK_PATH /\ r.error # Null /\ r.error # ""
         /\ promise[i] = Pending =>
           /\ promise'[i] =
                Rejected("oauth-error",
                         "OAuth error: " \o (IF r.desc # Null THEN r.desc ELSE r.error))
           /\ tokenRequests'[i] = tokenRequests[i]]_vars

\* an error callback that also has the right state and a code: OAuth error
C5_Witness ==
  /\ lastFlow = 1
  /\ lastReq.path = CALLBACK_PATH
  /\ lastReq.error = "access_denied"
  /\ lastReq.desc = Null
  /\ lastReq.state = "nonceA"
  /\ lastReq.code = "mock_auth_code"
  /\ promise[1] = Rejected("oauth-error", "OAuth error: access_denied")
  /\ tokenRequests[1] = 0

\* C6: once the watchdog has fired, no redirect-path request is processed and
\* no token request is sent; once a redirect-path request has been
\* processed, the watchdog does not fire.
C6_MutualExclusion ==
  [][\A i \in Flows :
       /\ timer[i] = "fired" =>
            processed'[i] = processed[i] /\ tokenRequests'[i] = tokenRequests[i]
       /\ processed[i] > 0 => ~(timer[i] # "fired" /\ timer'[i] = "fired")]_vars

\* C7: the watchdog firing before any outcome closes the listener and fails
\* the flow with the timeout; the timeout is delivered only if no
\* redirect-path request was processed and no token request was sent before.
C7_Timeout ==
  [][\A i \in Flows :
       /\ WatchdogFire(i) /\ promise[i] = Pending =>
            server'[i] # "listening" /\ promise'[i].reason = "timeout"
       /\ promise'[i].reason = "timeout" /\ promise[i].reason # "timeout" =>
            processed[i] = 0 /\ tokenRequests[i] = 0 /\ inflight[i] = 0]_vars

\* the flow timed out with a listener that had been bound
C7_Witness ==
  /\ promise[1].reason = "timeout"
  /\ timer[1] = "fired"
  /\ server[1] = "closed"
  /\ opener[1] = "ok"

\* C8: when the bind fails the opener is never invoked and no token request
\* is sent; once the error event is handled the flow has failed with the
\* bind error and the watchdog is cancelled.
C8_BindFailure ==
  \A i \in Flows :
    server[i] = "failed" =>
      /\ opener[i] = "notcalled"
      /\ tokenRequests[i] = 0
      /\ timer[i] # "fired"
      /\ srvErr[i] = "handled" =>
           promise[i] = Rejected("bind-error", "EADDRINUSE") /\ timer[i] = "cancelled"

\* the bind failure was delivered
C8_Witness ==
  /\ server[1] = "failed"
  /\ srvErr[1] = "handled"
  /\ promise[1].reason = "bind-error"
  /\ scenario = "single"

\* C9: two invocations never hold a listener on the same port at once; an
\* invocation that starts while the other holds the port fails to bind, its
\* bind error is delivered, and handling it changes nothing of the holder.
C9_PortRace ==
  /\ [](\A i, j \in Flows :
          i # j /\ server[i] = "listening" /\ server[j] = "listening" => port[i] # port[j])
  /\ [](\A i \in Flows :
          server[i] = "failed" /\ srvErr[i] = "handled" => promise[i].reason = "bind-error")
  /\ [][\A i, j \in Flows, p \in Ports :
          /\ i # j /\ Start(i, p, TRUE) /\ server[j] = "listening" /\ port[j] = p =>
               server'[i] = "failed"
          /\ i # j /\ ServerError(i, "EADDRINUSE") =>
               /\ server'[j] = server[j] /\ timer'[j] = timer[j]
               /\ promise'[j] = promise[j] /\ conns'[j] = conns[j]
               /\ inflight'[j] = inflight[j]]_vars

\* the loser got its bind error and the holder completed its login
C9_Witness ==
  /\ scenario = "concurrent"
  /\ port[1] = port[2]
  /\ server[1] = "failed"
  /\ promise[1].reason = "bind-error"
  /\ promise[2].kind = "resolved"
  /\ lastFlow = 2

\* C10: a token request answered before any outcome makes the flow succeed
\* only on a success status; every other answer, and a transport failure,
\* fails it with "Token exchange failed: <error_description, else message,
\* else HTTP status>".
C10_ExchangeFailure ==
  [][\A i \in Flows, resp \in Responses :
       ExchangeComplete(i, resp) /\ promise[i] = Pending =>
         /\ promise'[i].kind = "resolved" => resp.transport = "ok" /\ Ok(resp.status)
         /\ ~(resp.transport = "ok" /\ Ok(resp.status)) =>
              /\ promise'[i].reason = "token-exchange-error"
              /\ resp.transport = "ok" =>
                   promise'[i].msg =
                     "Token exchange failed: " \o
                       (IF resp.body.ed # Null THEN resp.body.ed
                        ELSE IF resp.body.msg # Null THEN resp.body.msg
                        ELSE "HTTP " \o ToString(resp.status))]_vars

\* C11: whenever the flow succeeds, the payload it yields contains an access
\* token and an instance URL, so every credential getAuthenticatedClient
\* writes or returns has both defined.
C11_PayloadComplete ==
  \A i \in Flows :
    promise[i].kind = "resolved" =>
      /\ promise[i].token.kind = "object"
      /\ promise[i].token.at # Null
      /\ promise[i].token.iu # Null

\* C12: a call that finds a stored credential younger than maxAge returns
\* exactly that credential's token and instance URL and does nothing else: no
\* login (browser, HTTP, listener) and no write to the storage.
C12_CacheHit ==
  [][\A c \in Calls :
       /\ gpc[c] = "get"
       /\ gpc'[c] # "get"
       /\ stored.present
       /\ clock - stored.collected < opts[c].maxAge
       => /\ gpc'[c] = "done"
          /\ returned'[c] = Value(stored.at, stored.iu)
          /\ ~loginCalled'[c]
          /\ stored' = stored
          /\ setCalls' = setCalls
          /\ token' = token]_vars

C12_Witness ==
  /\ gpc[1] = "done"
  /\ ~loginCalled[1]
  /\ returned[1] = Value("stale-tok", INSTANCE_URL)
  /\ opts[1].maxAge = 2
  /\ clock = 1
  /\ setCalls[1] = 0

\* C13: the login runs exactly when no storage is configured, the storage is
\* empty, or the stored credential's age is not below maxAge; a login that
\* succeeded is followed by exactly one write of {token, instance URL,
\* collectedAt = now} when a storage is configured, and the call returns the
\* token and instance URL just obtained.
C13_LoginIffStale ==
  [][\A c \in Calls :
       /\ gpc[c] = "idle" /\ gpc'[c] # "idle" =>
            (loginCalled'[c] <=> ~opts'[c].useStorage)
       /\ gpc[c] = "get" /\ gpc'[c] # "get" =>
            (loginCalled'[c] <=>
               (~stored.present \/ clock - stored.collected >= opts[c].maxAge))
       /\ gpc[c] = "login" /\ gpc'[c] # "login" /\ token'[c].kind = "resolved" =>
            /\ cachedRec'[c].present
            /\ cachedRec'[c].at = token'[c].token.at
            /\ cachedRec'[c].iu = token'[c].token.iu
            /\ cachedRec'[c].collected = clock
            /\ gpc'[c] = (IF opts[c].useStorage THEN "set" ELSE "done")
       /\ gpc[c] = "set" /\ gpc'[c] # "set" =>
            /\ stored' = cachedRec[c]
            /\ setCalls'[c] = 1
       /\ loginCalled[c] /\ gpc[c] # "done" /\ gpc'[c] = "done" =>
            /\ returned'[c] = Value(token'[c].token.at, token'[c].token.iu)
            /\ setCalls'[c] = (IF opts[c].useStorage THEN 1 ELSE 0)]_vars

\* C14: the stored credential only changes by the write of a whole record
\* after a successful login, its collectedAt being the time its token was
\* obtained; a credential served from the storage was obtained less than
\* maxAge before.
C14_WholeRecord ==
  /\ [](stored.present => stored.collected = stored.obtained)
  /\ [][stored' # stored =>
          \E c \in Calls :
            /\ gpc[c] = "set" /\ gpc'[c] = "done"
            /\ token[c].kind = "resolved"
            /\ stored' = MakeRecord(token[c].token, cachedRec[c].collected)]_vars
  /\ [][\A c \in Calls :
          gpc[c] = "get" /\ gpc'[c] = "done" =>
            /\ stored.obtained <= clock
            /\ clock - stored.obtained < opts[c].maxAge]_vars

C14_Witness ==
  /\ gpc[2] = "done"
  /\ ~loginCalled[2]
  /\ returned[2] = Value("tok1", INSTANCE_URL)
  /\ setCalls[1] = 1
  /\ clock = 3

\* the records of a sequence of pages, parsed, in page order
RECURSIVE C15_Concat(_)
C15_Concat(pages) ==
  IF pages = <<>> THEN <<>>
  ELSE LET n == Len(pages) IN
    C15_Concat(SubSeq(pages, 1, n - 1)) \o
      [k \in 1..Len(pages[n].body.recs) |-> ParseWorkItem(pages[n].body.recs[k])]

C15_GoodPage(resp) ==
  resp.transport = "ok" /\ resp.status = 200 /\ resp.body.kind = "object"

C15_Continues(resp) ==
  resp.body.done = "false" /\ resp.body.hasNext /\ resp.body.next # <<>>

C15_IsChain(pages) ==
  /\ Len(pages) >= 1
  /\ \A k \in 1..Len(pages) :
       /\ C15_GoodPage(pages[k])
       /\ k < Len(pages) => C15_Continues(pages[k])
  /\ pages[Len(pages)].body.done = "true"

\* C15: when the server's answers form a chain of n pages (n-1 pages with
\* done false and a nextRecordsUrl, then one with done true), the call sends
\* exactly n requests, never two at a time and the next one only after the
\* previous answer was taken in, and returns the records of all pages in page
\* order and, within a page, in delivery order.
C15_Pagination ==
  /\ Len(qRequests) = Len(qPages) + (IF qpc = "awaiting" THEN 1 ELSE 0)
  /\ qpc = "done" => ~C15_Continues(qPages[Len(qPages)])
  /\ qpc \in {"done", "failed"} /\ C15_IsChain(qPages) =>
       /\ qpc = "done"
       /\ Len(qRequests) = Len(qPages)
       /\ qResult = [kind |-> "value", records |-> C15_Concat(qPages), msg |-> ""]

C15_Witness ==
  /\ qpc = "done"
  /\ Len(qPages) = 3
  /\ C15_IsChain(qPages)
  /\ Len(qResult.records) = 4
  /\ qResult.records[1].id = "a2"
  /\ qResult.records[3].id = "a1"

\* C16: a page request, the first or a later one, that gets a non-success
\* status or a transport failure fails the whole call: no record of an
\* earlier page is returned and no further request is sent.
C16_PageFailure ==
  /\ [][qpc = "awaiting" /\ Len(qPages') = Len(qPages) + 1 =>
          LET resp == qPages'[Len(qPages')] IN
            resp.transport = "fail" \/ ~Ok(resp.status) =>
              /\ qpc' = "failed"
              /\ qResult'.kind = "error"
              /\ qResult'.records = <<>>
              /\ qRequests' = qRequests]_vars
  /\ [][qpc = "failed" => qpc' = "failed" /\ qRequests' = qRequests /\ qResult' = qResult]_vars

C16_Witness ==
  /\ qpc = "failed"
  /\ Len(qPages) = 2
  /\ Len(allRecords) = 2
  /\ qPages[2].status = 400
  /\ qResult.kind = "error"

\* C17 as claimed: the continuation request goes to instanceUrl followed by
\* nextRecordsUrl when that is a relative path and to nextRecordsUrl
\* unchanged when it is an absolute URL, with the first request's token.
C17_Original ==
  [][Len(qRequests) >= 1 /\ Len(qRequests') = Len(qRequests) + 1 =>
       LET next == qPages'[Len(qPages')].body.next
           sent == qRequests'[Len(qRequests')]
       IN /\ sent.url = (IF next[1] = INSTANCE_URL THEN next
                         ELSE StripTrailingSlash(qArgs.instanceUrl) \o next)
          /\ sent.authorization = qRequests[1].authorization]_vars

\* C17: the continuation request always goes to instanceUrl, less one
\* trailing slash, followed by nextRecordsUrl, whether that is a relative
\* path or an absolute URL, and carries the first request's bearer token.
C17_Continuation ==
  [][Len(qRequests) >= 1 /\ Len(qRequests') = Len(qRequests) + 1 =>
       LET next == qPages'[Len(qPages')].body.next
           inst == qArgs.instanceUrl
           sent == qRequests'[Len(qRequests')]
       IN /\ sent.url = (IF inst[Len(inst)] = "/" THEN SubSeq(inst, 1, Len(inst) - 1)
                         ELSE inst) \o next
          /\ sent.authorization = "Bearer " \o qArgs.accessToken
          /\ sent.authorization = qRequests[1].authorization]_vars

C17_Witness ==
  /\ Len(qRequests) = 2
  /\ qPages[1].body.next = AbsoluteNext
  /\ qArgs.instanceUrl = <<INSTANCE_URL, "/">>
  /\ qRequests[2].url = <<INSTANCE_URL, INSTANCE_URL, QUERY_PATH, "/01gxxx-2000">>

\* the template with each placeholder whose value is supplied replaced by that
\* value, atom for atom, in one pass; everything else copied
RECURSIVE C18_Literal(_, _, _)
C18_Literal(s, i, vals) ==
  IF i > Len(s) THEN <<>>
  ELSE IF /\ i < Len(s)
          /\ s[i] = "$"
          /\ \E key \in Keys : s[i + 1] = Brace(key) /\ vals[key].given
  THEN LET key == CHOOSE k \in Keys : s[i + 1] = Brace(k) IN
         vals[key].v \o C18_Literal(s, i + 2, vals)
  ELSE <<s[i]>> \o C18_Literal(s, i + 1, vals)

\* C18: substituteQueryTemplate(template, values) is the template in which
\* every ${me}, ${team}, ${product_tag} whose value is supplied is replaced
\* by exactly that value and nothing else is changed (unsupplied and unknown
\* placeholders stay; no values gives the template back).
C18_LiteralSubstitution ==
  [][substCalls = 0 /\ substCalls' = 1 =>
       current' = C18_Literal(template, 1, Only(values, applied'))]_vars

\* C19: substituting the supplied values in several calls, a subset at a
\* time in any order, gives the same string as substituting them all in one
\* call.
C19_PartialCompose ==
  substCalls >= 1 /\ applied = GivenKeys(values) =>
    current = SubstituteQueryTemplate(template, values)

C20_Double(s) ==
  IF s = <<>> THEN <<>>
  ELSE LET F[k \in 0..Len(s)] ==
             IF k = 0 THEN <<>>
             ELSE F[k - 1] \o (IF s[k] = "'" THEN <<"'", "'">> ELSE <<s[k]>>)
       IN F[Len(s)]

RECURSIVE C20_Collapse(_, _)
C20_Collapse(s, i) ==
  IF i > Len(s) THEN <<>>
  ELSE IF i < Len(s) /\ s[i] = "'" /\ s[i + 1] = "'"
  THEN <<"'">> \o C20_Collapse(s, i + 2)
  ELSE <<s[i]>> \o C20_Collapse(s, i + 1)

C20_EvenRuns(s) ==
  \A i, j \in 1..Len(s) :
    /\ i <= j
    /\ \A k \in i..j : s[k] = "'"
    /\ i = 1 \/ s[i - 1] # "'"
    /\ j = Len(s) \/ s[j + 1] # "'"
    => (j - i + 1) % 2 = 0

\* C20: escapeSoqlString doubles every single quote and changes nothing else:
\* every maximal run of quotes in the result has even length, and collapsing
\* each pair of quotes to one gives the input back.
C20_SoqlEscape ==
  escDone =>
    /\ escOut = C20_Double(escIn)
    /\ C20_EvenRuns(escOut)
    /\ C20_Collapse(escOut, 1) = escIn

C20_Witness ==
  /\ escDone
  /\ escIn = <<"'", "a", "'", "'">>
  /\ escOut = <<"'", "'", "a", "'", "'", "'", "'">>

C21_Reserved ==
  {"?", "&", "|", "!", "{", "}", "[", "]", "(", ")", "^", "~", ":", "\\", "\"", "'", "+",
   "-", "="}

C21_Escaped(s) ==
  LET F[k \in 0..Len(s)] ==
        IF k = 0 THEN <<>>
        ELSE F[k - 1] \o (IF s[k] \in C21_Reserved THEN <<"\\", s[k]>> ELSE <<s[k]>>)
  IN F[Len(s)]

\* drops each backslash that stands before a reserved character
RECURSIVE C21_Unescape(_, _)
C21_Unescape(s, i) ==
  IF i > Len(s) THEN <<>>
  ELSE IF s[i] = "\\" /\ i < Len(s) /\ s[i + 1] \in C21_Reserved
  THEN <<s[i + 1]>> \o C21_Unescape(s, i + 2)
  ELSE <<s[i]>> \o C21_Unescape(s, i + 1)

C22_Equal(p, query) == ToLowerCase(p) = ToLowerCase(query)

C22_Contains(p, query) == Includes(ToLowerCase(p), ToLowerCase(query))

\* C22: when some candidate equals the query case-insensitively, the result
\* is the first such candidate, in its original casing, whatever other
\* candidates contain the query.
C22_ExactFirst ==
  rResult # NoResolution =>
    \A k \in 1..Len(rProjects) :
      /\ C22_Equal(rProjects[k], rQuery)
      /\ \A j \in 1..(k - 1) : ~C22_Equal(rProjects[j], rQuery)
      => rResult = [kind |-> "value", name |-> rProjects[k], lines |-> <<>>]

\* C23: every call returns one member of the candidate list that contains
\* the query case-insensitively, or fails as not-found or ambiguous; with no
\* candidate equal to the query and exactly one containing it, that one is
\* returned.
C23_Total ==
  rResult # NoResolution =>
    /\ rResult.kind \in {"value", "ambiguous", "not-found"}
    /\ rResult.kind = "value" =>
         /\ \E k \in 1..Len(rProjects) : rProjects[k] = rResult.name
         /\ C22_Contains(rResult.name, rQuery)
    /\ \A k \in 1..Len(rProjects) :
         /\ C22_Contains(rProjects[k], rQuery)
         /\ \A j \in 1..Len(rProjects) :
              /\ ~C22_Equal(rProjects[j], rQuery)
              /\ j # k => ~C22_Contains(rProjects[j], rQuery)
         => rResult = [kind |-> "value", name |-> rProjects[k], lines |-> <<>>]

C23_Witness ==
  /\ rResult = [kind |-> "value", name |-> <<"A", "b">>, lines |-> <<>>]
  /\ rQuery = <<"a">>
  /\ rProjects = <<<<"b">>, <<"A", "b">>, <<"b", "b">>>>

\* C24: a failure lists candidates in the order of the candidate list: an
\* ambiguous error exactly the two or more candidates containing the query, a
\* not-found error, given when none contains it (an empty list included),
\* all the candidates.
C24_ErrorLists ==
  rResult # NoResolution /\ rResult.kind # "value" =>
    LET matching == SelectSeq(rProjects, LAMBDA p : C22_Contains(p, rQuery))
        listed == [k \in 1..Len(rResult.lines) |-> Tail(rResult.lines[k])]
    IN /\ \A k \in 1..Len(rResult.lines) : Head(rResult.lines[k]) = "  - "
       /\ IF Len(matching) >= 2
          THEN rResult.kind = "ambiguous" /\ listed = matching
          ELSE rResult.kind = "not-found" /\ Len(matching) = 0 /\ listed = rProjects

C24_Witness ==
  /\ rResult.kind = "ambiguous"
  /\ rQuery = <<"b">>
  /\ rProjects = <<<<"a", "b">>, <<"A">>, <<"b", "A">>>>
  /\ rResult.lines = <<<<"  - ", "a", "b">>, <<"  - ", "b", "A">>>>

\* ---------------------------------------------------------------- C25
C25_CreatedWithId(a) ==
  a.transport = "ok" /\ Ok(a.status) /\ a.body.kind = "object" /\ a.body.success = "true"
  /\ Truthy(a.body.id)

C25_Kinds == [i \in DOMAIN opSent |-> opSent[i].kind]

C25_NameFound(a) ==
  a.body.kind = "object" /\ a.body.hasRecs /\ Len(a.body.recs) > 0
  /\ a.body.recs[1] \notin {Absence, Null}

C25_Url(instanceUrl, id) ==
  IF Len(instanceUrl) > 0 /\ instanceUrl[Len(instanceUrl)] = "/"
    THEN instanceUrl \o <<id>>
    ELSE instanceUrl \o <<"/", id>>

\* C25: createWorkItem sends the creation POST exactly once; it sends the
\* follow-up query, once and keyed by the id of the creation answer, exactly
\* when the creation succeeded with an id; and once the follow-up query is
\* answered it returns {id, name, url} with the created id, the Name found
\* by the follow-up query (the id when none is found) and the instance URL
\* followed by the id.
C25_TwoSteps ==
  op.name = "createWorkItem" =>
    /\ C25_Kinds \in {<<"create">>, <<"create", "name-lookup">>}
    /\ opSent[1].method = "POST"
    /\ Len(opGot) = 0 => Len(opSent) = 1
    /\ Len(opGot) >= 1 =>
         IF C25_CreatedWithId(opGot[1])
           THEN Len(opSent) = 2 /\ opSent[2].key = <<opGot[1].body.id>>
           ELSE Len(opSent) = 1 /\ opResult.kind = "error"
    /\ (Len(opGot) = 2 /\ opGot[2].transport = "ok" /\ Ok(opGot[2].status)) =>
         LET id == opGot[1].body.id IN
         /\ opResult.kind = "value"
         /\ opResult.id = id
         /\ opResult.name = IF C25_NameFound(opGot[2]) THEN opGot[2].body.recs[1] ELSE id
         /\ opResult.url = C25_Url(op.instanceUrl, id)

\* ---------------------------------------------------------------- C26
C26_FirstMessage(a) ==
  IF a.body.kind = "object" /\ a.body.hasErrors /\ Len(a.body.errors) > 0
    THEN a.body.errors[1]
    ELSE Null

\* C26: when the creation answer has a non-success status or reports
\* success false, createWorkItem and createEpic fail with the message of the
\* first entry of the answer's error list when that entry has one, and with
\* a message carrying the HTTP status otherwise; no id is returned and no
\* further request is sent.
C26_CreationFailure ==
  (/\ op.name \in {"createWorkItem", "createEpic"}
   /\ Len(opGot) >= 1
   /\ opGot[1].transport = "ok"
   /\ (~Ok(opGot[1].status) \/ opGot[1].body.success = "false")) =>
    /\ opPc = "failed"
    /\ opResult.kind = "error"
    /\ opResult.id = Null
    /\ Len(opSent) = 1
    /\ IF C26_FirstMessage(opGot[1]) # Null
         THEN opResult.msg = <<C26_FirstMessage(opGot[1])>>
         ELSE opResult.msg[Len(opResult.msg)] = ToString(opGot[1].status)

\* ---------------------------------------------------------------- C27
C27_Failed(a) == a.transport = "fail" \/ ~Ok(a.status)

\* C27: an operation that got a transport failure or a non-success answer
\* to one of its requests (user info, search, team-membership lookup,
\* record-type lookup, creation, name look-up after creation) does not end
\* with a normal result.
C27_NoSwallowedFailure ==
  opPc = "done" => \A i \in DOMAIN opGot : ~C27_Failed(opGot[i])

\* ---------------------------------------------------------------- C28
C28_UserTeams ==
  UNION {{opGot[i].body.recs[j] : j \in DOMAIN opGot[i].body.recs} \ {Absence, Null, ""} :
           i \in {k \in DOMAIN opGot : /\ opSent[k].kind = "team-lookup"
                                       /\ opGot[k].transport = "ok"
                                       /\ Ok(opGot[k].status)
                                       /\ opGot[k].body.kind = "object"}}

\* C28: with restrictToMyTeams true, every search request of searchEpics
\* carries a team restriction, and the teams it names are teams of the
\* current user.
C28_TeamRestricted ==
  (op.name = "searchEpics" /\ op.restrictToMyTeams) =>
    \A i \in DOMAIN opSent :
      opSent[i].kind = "search" =>
        /\ opSent[i].restricted
        /\ {opSent[i].teams[j] : j \in DOMAIN opSent[i].teams} \subseteq C28_UserTeams

\* ---------------------------------------------------------------- C29
\* C29: while a flow awaits the callback (outcome pending, listener bound,
\* watchdog running), a request whose path is not /OauthRedirect is answered
\* 404 and changes nothing else of the flow, whatever its query parameters:
\* no outcome, listener and timer as before, no token request.
C29_NotFoundFrame ==
  [][\A i \in Flows : LET r == lastReq' IN
       (/\ HandleRequest(i, r)
        /\ r.path # CALLBACK_PATH
        /\ promise[i] = Pending /\ server[i] = "listening" /\ timer[i] = "pending") =>
         /\ lastAnswer' = 404
         /\ UNCHANGED <<promise, server, timer, delivered, lateCall, processed, tokenRequests,
                        inflight, started, port, srvErr, listenCb, opener, accepted>>]_vars

\* ---------------------------------------------------------------- C30
C30_Supplied(f) == cfgPartial.given /\ f \in DOMAIN cfgPartial.fields

\* C30: in the configuration a call works with, a field the caller's partial
\* configuration holds has the caller's value, every other field has its
\* default (and is missing when it has none); and the shared default object
\* is as it was constructed.
C30_FieldByField ==
  /\ defaultConfig = [instance |-> "gus.my.salesforce.com", clientId |-> "PlatformCLI",
                      redirectUri |-> "http://localhost:1717/OauthRedirect",
                      scopes |-> "refresh_token api web"]
  /\ cfgCaller # "none" =>
       \A f \in ConfigFields :
         IF C30_Supplied(f)
           THEN f \in DOMAIN cfgEffective /\ cfgEffective[f] = cfgPartial.fields[f]
         ELSE IF f \in {"instance", "clientId", "redirectUri", "scopes"}
           THEN f \in DOMAIN cfgEffective /\ cfgEffective[f] = DEFAULT_GUS_CONFIG[f]
         ELSE f \notin DOMAIN cfgEffective

\* the case of the unit test: instance and clientId supplied, the rest default
C30_Witness ==
  /\ cfgCaller = "buildAuthUrl"
  /\ cfgPartial.given
  /\ DOMAIN cfgPartial.fields = {"instance", "clientId"}
  /\ cfgEffective = [instance |-> "custom.my.salesforce.com", clientId |-> "CustomClient",
                     redirectUri |-> DEFAULT_REDIRECT_URI, scopes |-> DEFAULT_SCOPES]

\* ---------------------------------------------------------------- C31
C31_UrlSafe ==
  {"A", "B", "C", "D", "E", "F", "G", "H", "I", "J", "K", "L", "M", "N", "O", "P", "Q", "R",
   "S", "T", "U", "V", "W", "X", "Y", "Z", "a", "b", "c", "d", "e", "f", "g", "h", "i", "j",
   "k", "l", "m", "n", "o", "p", "q", "r", "s", "t", "u", "v", "w", "x", "y", "z", "0", "1",
   "2", "3", "4", "5", "6", "7", "8", "9", "_", "-"}

\* C31: a verifier returned by generateCodeVerifier encodes 32 bytes, has
\* exactly 43 characters, hence between 43 and 128, and holds only
\* characters of A-Z, a-z, 0-9, underscore and hyphen.
C31_VerifierShape ==
  verifier # <<>> =>
    /\ Len(entropy) = 32
    /\ Len(verifier) = 43
    /\ Len(verifier) >= 43 /\ Len(verifier) <= 128
    /\ \A i \in DOMAIN verifier : verifier[i] \in C31_UrlSafe

\* a verifier whose bytes fall on the sextets 62 and 63
C31_Witness ==
  /\ Len(verifier) = 43
  /\ \E i \in DOMAIN verifier : verifier[i] = "_"
  /\ \E i \in DOMAIN verifier : verifier[i] = "-"

\* ---------------------------------------------------------------- C32
\* C32: under fairness of the timer, the listener and the injected
\* callbacks, an invocation of loginViaBrowser that has started eventually
\* has its outcome, Succeeded or Failed.
C32_Terminates == started[1] ~> (promise[1] # Pending)

\* ---------------------------------------------------------------- C33
\* a response after which the claim lets the loop go on; a missing `done`
\* counts as false, an empty nextRecordsUrl as none
C33_MorePages(resp) ==
  /\ resp.transport = "ok"
  /\ resp.body.kind = "object"
  /\ resp.body.done # "true"
  /\ resp.body.hasNext /\ resp.body.next # <<>>

\* C33: queryWorkItems sends request k+1 only after a k-th response with
\* done false and a nextRecordsUrl; a response with done true (with or
\* without a nextRecordsUrl) or with no nextRecordsUrl is the last one: the
\* call is over after that request; and when the call returns, the page
\* cursor is null.
C33_Termination ==
  /\ \A k \in DOMAIN qRequests : k > 1 => C33_MorePages(qPages[k - 1])
  /\ \A k \in DOMAIN qPages :
       ~C33_MorePages(qPages[k]) =>
         /\ qpc \in {"done", "failed"}
         /\ Len(qPages) = k
         /\ Len(qRequests) = k
  /\ qpc = "done" => url = <<>>

\* the second page is the last: done true, although it names a further page
C33_Witness ==
  /\ qpc = "done"
  /\ Len(qRequests) = 2
  /\ qPages[2].body.done = "true"
  /\ qPages[2].body.hasNext /\ qPages[2].body.next # <<>>
  /\ url = <<>>

\* ---------------------------------------------------------------- C34
C34_NoJson(resp) ==
  resp.transport = "ok" /\ Ok(resp.status) /\ resp.body.kind \in {"malformed", "throws"}

\* C34: a page answered with a success status and a body that is not JSON
\* is the last page and adds no record: the call returns the records of the
\* earlier pages, without an error.
C34_MalformedPage ==
  \A k \in DOMAIN qPages :
    C34_NoJson(qPages[k]) =>
      /\ Len(qPages) = k
      /\ qpc = "done"
      /\ qResult = [kind |-> "value", records |-> C15_Concat(SubSeq(qPages, 1, k - 1)),
                    msg |-> ""]

\* ---------------------------------------------------------------- C35
\* the term without its leading and trailing blanks
C35_Trimmed(s) ==
  LET solid == {k \in DOMAIN s : s[k] # " "} IN
  IF solid = {} THEN <<>>
  ELSE SubSeq(s, CHOOSE k \in solid : \A j \in solid : k <= j,
                 CHOOSE k \in solid : \A j \in solid : k >= j)

C35_Searches == SelectSeq(opSent, LAMBDA q : q.kind = "search")

C35_IsSearch == op.name \in {"searchProductTags", "searchEpics"} /\ opPc \in {"done", "failed"}

C35_BlankOrShaped ==
  IF C35_Trimmed(op.searchTerm) = <<>>
    THEN opSent = <<>> /\ opPc = "done" /\ opResult.items = <<>>
  ELSE \A i \in DOMAIN C35_Searches :
         /\ C35_Searches[i].method = "GET"
         /\ C35_Searches[i].key = C21_Escaped(C35_Trimmed(op.searchTerm)) \o <<"*">>

\* C35 as stated: a finished search with a blank term sent nothing and
\* returned an empty list; with any other term it sent exactly one search
\* request, whose FIND term is the escaped trimmed term followed by "*".
C35_OneSearch ==
  C35_IsSearch =>
    /\ C35_BlankOrShaped
    /\ C35_Trimmed(op.searchTerm) # <<>> => Len(C35_Searches) = 1

\* C35, amended: at most one search request is sent, with the FIND term as
\* stated; searchProductTags sends exactly one and nothing else, and
\* searchEpics sends none only when the team lookup that precedes the search
\* failed, in which case the call fails.
C35_Search ==
  C35_IsSearch =>
    /\ C35_BlankOrShaped
    /\ C35_Trimmed(op.searchTerm) # <<>> =>
         /\ Len(C35_Searches) <= 1
         /\ op.name = "searchProductTags" => Len(opSent) = 1 /\ Len(C35_Searches) = 1
         /\ Len(C35_Searches) = 0 =>
              /\ op.name = "searchEpics" /\ op.restrictToMyTeams
              /\ opPc = "failed"
              /\ opSent[Len(opSent)].kind = "team-lookup"

C35_Witness ==
  /\ op.name = "searchEpics" /\ opPc = "done"
  /\ op.searchTerm = <<" ", "(", "e", " ">>
  /\ Len(opSent) = 3
  /\ opSent[3].key = <<"\\", "(", "e", "*">>

\* ---------------------------------------------------------------- C36
\* a field that is missing or null in the raw record
C36_Unset(v) == v \in {Absence, Null}

C36_Plain ==
  {<<"description", "Details__c">>, <<"currencyIsoCode", "CurrencyIsoCode">>,
   <<"severity", "Severity__c">>, <<"assigneeId", "Assignee__c">>,
   <<"createdDate", "CreatedDate">>, <<"lastModifiedDate", "LastModifiedDate">>}

C36_Related ==
  {<<"productTagName", "Product_Tag__r", "Name">>, <<"epicName", "Epic__r", "Name">>,
   <<"recordTypeDeveloperName", "RecordType", "DeveloperName">>}

\* C36: in the work item returned for a record, name, subject and status are
\* the remote values, or '' when the remote field is missing or null; every
\* other optional field is the remote value as it came, or undefined when
\* the remote field (or the related object that holds it) is missing, and is
\* '' only when the remote value is ''; id is the remote Id.
C36_Projection ==
  parsed =>
    /\ workItem.id = (IF rawRecord.Id = Absence THEN Undefined ELSE rawRecord.Id)
    /\ \A p \in {<<"name", "Name">>, <<"subject", "Subject__c">>, <<"status", "Status__c">>} :
         workItem[p[1]] = (IF C36_Unset(rawRecord[p[2]]) THEN "" ELSE rawRecord[p[2]])
    /\ \A p \in C36_Plain :
         /\ workItem[p[1]] = (IF rawRecord[p[2]] = Absence THEN Undefined ELSE rawRecord[p[2]])
         /\ workItem[p[1]] = "" => rawRecord[p[2]] = ""
    /\ \A p \in C36_Related :
         LET parent == rawRecord[p[2]] IN
         /\ parent.kind # "object" => workItem[p[1]] = Undefined
         /\ parent.kind = "object" =>
              workItem[p[1]] = (IF parent[p[3]] = Absence THEN Undefined ELSE parent[p[3]])
         /\ workItem[p[1]] = "" => parent.kind = "object" /\ parent[p[3]] = ""

C36_Witness ==
  /\ parsed
  /\ rawRecord.Name = "W-12345" /\ rawRecord.Subject__c = Absence
  /\ rawRecord.Details__c = Absence /\ rawRecord.Severity__c = "In Progress"
  /\ workItem.subject = "" /\ workItem.description = Undefined
  /\ workItem.severity = "In Progress"

\* ---------------------------------------------------------------- C37
\* C37: when the login run by a call settles as a failure (a rejection, or a
\* payload the call cannot read), the call fails with that failure, the step
\* leaves the token storage and the count of writes as they were, and the
\* failed call never writes afterwards.
C37_LoginFailure ==
  /\ [][\A c \in Calls :
          gpc[c] = "login" /\ gpc'[c] = "failed" =>
            /\ returned'[c].kind = "error"
            /\ token'[c].kind = "rejected" => returned'[c] = Thrown(token'[c].reason)
            /\ stored' = stored
            /\ setCalls' = setCalls]_vars
  /\ [][\A c \in Calls :
          gpc[c] = "login" /\ token'[c].kind = "rejected" => gpc'[c] = "failed"]_vars
  /\ [][\A c \in Calls :
          gpc[c] = "failed" =>
            gpc'[c] = "failed" /\ returned'[c] = returned[c] /\ setCalls'[c] = 0]_vars

C37_Witness ==
  /\ gpc[1] = "failed"
  /\ opts[1].useStorage
  /\ token[1].kind = "rejected"
  /\ returned[1] = Thrown(token[1].reason)
  /\ stored = StaleCred
  /\ setCalls = [c \in Calls |-> 0]

\* ---------------------------------------------------------------- C38
\* C38: one invocation sends at most one request to the token endpoint,
\* however many redirect-path requests reach its listener.
C38_SingleExchange == \A i \in Flows : tokenRequests[i] <= 1

\* ---------------------------------------------------------------- C39
\* the port a browser connects to when it follows a redirect URI
C39_PortOf(uri) ==
  CASE uri = "http://localhost:1717/OauthRedirect" -> 1717
    [] uri = "http://localhost:1718/OauthRedirect" -> 1718
    [] OTHER -> 80

\* C39: the port the listener is bound on is the port of the redirect URI
\* that the invocation puts in the authorization URL and in the token
\* request.
C39_PortAgreement ==
  /\ setupPc # "idle" => listenPort = C39_PortOf(authRedirectUri)
  /\ setupPc = "exchanged" =>
       tokenRedirectUri = authRedirectUri /\ listenPort = C39_PortOf(tokenRedirectUri)

\* ---------------------------------------------------------------- C40
\* C40: the credential the token storage wrote last is the one in the
\* plugin's stored data: saving the settings neither removes it nor puts an
\* older one back.
C40_CredentialKept == credential # Absence => dataJson.gusToken = credential

TypeOK ==
  /\ \A i \in Flows : promise[i].kind \in {"pending", "resolved", "rejected"}
  /\ \A i \in Flows : conns[i] \in 0..MaxRequests

====
